---- MODULE Spec2Model ----
(***************************************************************************)
(* A model of the go-stl collections: the binary search tree (bst.go), the *)
(* ordered map (treemap.go), the trie (set.go), the adjacency-list graph   *)
(* (graph.go), the deque and the priority queue.  Every container is a     *)
(* group of variables; every public method is one action.  The last call   *)
(* on a container, with its argument, its return value and the container's *)
(* state before the call, is kept in the container's "call" variable so    *)
(* that properties of a call can be stated as state predicates.            *)
(***************************************************************************)
EXTENDS Integers, Sequences, FiniteSets, Bags, TLC

VARIABLES
    bstRoot,    \* BST.Root: Nil or a BSTNode record
    bstSize,    \* BST.Size
    bstCall,    \* the last call on the BST
    tmRoot,     \* TreeMap.root: Nil or a TreeMapNode record
    tmSize,     \* TreeMap.size
    tmAbs,      \* the abstract map run beside the TreeMap: key -> value
    tmCall,     \* the last call on the TreeMap
    trieNodes,  \* the Trie's nodes: path from the root -> [isEnd, value]
    trieSize,   \* Trie.size
    trieWords,  \* the abstract set of words run beside the Trie
    trieCall,   \* the last call on the Trie
    adjacency,  \* Graph.adjacency: node -> the list of its neighbours
    directed,   \* Graph.directed
    graphCall,  \* the last call on the Graph
    deque,      \* the Deque: [data, front, back, size]
    dequeList,  \* the abstract list run beside the Deque
    dequeCall,  \* the last call on the Deque
    pqData,     \* PriorityQueue.data
    pqCall      \* the last call on the PriorityQueue

bstVars == <<bstRoot, bstSize, bstCall>>

tmVars == <<tmRoot, tmSize, tmAbs, tmCall>>

trieVars == <<trieNodes, trieSize, trieWords, trieCall>>

graphVars == <<adjacency, directed, graphCall>>

dequeVars == <<deque, dequeList, dequeCall>>

pqVars == <<pqData, pqCall>>

vars == <<bstVars, tmVars, trieVars, graphVars, dequeVars, pqVars>>

\* What a call on one container leaves alone: the other containers.
besideBST == <<tmVars, trieVars, graphVars, dequeVars, pqVars>>

besideTreeMap == <<bstVars, trieVars, graphVars, dequeVars, pqVars>>

besideTrie == <<bstVars, tmVars, graphVars, dequeVars, pqVars>>

besideGraph == <<bstVars, tmVars, trieVars, dequeVars, pqVars>>

besideDeque == <<bstVars, tmVars, trieVars, graphVars, pqVars>>

besidePriorityQueue == <<bstVars, tmVars, trieVars, graphVars, dequeVars>>

(***************************************************************************)
(* Bounds of the model.                                                    *)
(***************************************************************************)
\* The BST holds integers of 1..MaxVal.
MaxVal == 5

Elements == 1..MaxVal

\* TreeMap keys are the integers 1..MaxKey.
MaxKey == 4

KeyDomain == 1..MaxKey

\* TreeMap values: two strings, and the zero value of the value type.
TMValues == {"x", "y"}

ZeroV == ""

\* Trie words, each the sequence of its runes (code points): "", "a", "ab",
\* "b", U+00E9 (two bytes in UTF-8: C3 A9) and U+00C3 U+00A9, the word whose
\* runes are those two bytes.
Words == {<<>>, <<97>>, <<97, 98>>, <<98>>, <<233>>, <<195, 169>>}

\* The longest string EditDistance is called with, in characters.
MaxWordLen == 2

\* The values InsertWithValue associates with a word; a plain Insert passes
\* the nil interface value.
NilValue == "nil"

TrieValues == {"v"}

\* Graph node identities.
Nodes == {1, 2, 3}

\* AddEdge is called only while the adjacency lists have room for the
\* entries of one more edge among those of MaxEdges edges.
MaxEdges == 3

\* The ranks Select is asked for: every rank of a full tree and one on
\* either side.
BSTRanks == -1..(MaxVal + 1)

TMRanks == -1..(MaxKey + 1)

\* The Deque holds up to MaxDeque elements of DequeValues; it is made with
\* one of DequeCapacities as its initial capacity, and these are also the
\* capacities Reserve is asked for.  Insert and Remove are called with the
\* indices from -1 to MaxDeque.
MaxDeque == 3

DequeValues == {1, 2}

DequeCapacities == {1, 2, 3}

DequeIndices == -1..MaxDeque

\* The PriorityQueue holds up to MaxQueue elements of PQValues.
MaxQueue == 7

PQValues == {1, 2, 3}

\* The nil pointer.
Nil == <<>>

\* The call record of a container no method has been called on yet.
NoCall == [op |-> "none"]

(***************************************************************************)
(* BST (src/stl/bst.go), instantiated at T = int with the comparator       *)
(* func(a, b int) bool { return a < b } of the tests.                      *)
(***************************************************************************)
BSTNode(value, left, right) == [Value |-> value, Left |-> left, Right |-> right]

Less(a, b) == a < b

\* An insertRecursive that sends a value equal to the node's into the right
\* subtree instead of dropping it.
RECURSIVE insertRecursiveDup(_, _)
insertRecursiveDup(node, value) ==
    IF node = Nil
    THEN [node |-> BSTNode(value, Nil, Nil), inc |-> 1]
    ELSE IF Less(value, node.Value)
    THEN LET r == insertRecursiveDup(node.Left, value)
         IN  [node |-> [node EXCEPT !.Left = r.node], inc |-> r.inc]
    ELSE LET r == insertRecursiveDup(node.Right, value)
         IN  [node |-> [node EXCEPT !.Right = r.node], inc |-> r.inc]

\* insertRecursive returns the subtree with value inserted; "inc" is the
\* number of times it ran bst.Size++.
RECURSIVE insertRecursive(_, _)
insertRecursive(node, value) ==
    IF node = Nil
    THEN [node |-> BSTNode(value, Nil, Nil), inc |-> 1]
    ELSE IF Less(value, node.Value)
    THEN LET r == insertRecursive(node.Left, value)
         IN  [node |-> [node EXCEPT !.Left = r.node], inc |-> r.inc]
    ELSE IF Less(node.Value, value)
    THEN LET r == insertRecursive(node.Right, value)
         IN  [node |-> [node EXCEPT !.Right = r.node], inc |-> r.inc]
    ELSE [node |-> node, inc |-> 0]

RECURSIVE searchRecursive(_, _)
searchRecursive(node, value) ==
    IF node = Nil \/ node.Value = value
    THEN node
    ELSE IF Less(value, node.Value)
    THEN searchRecursive(node.Left, value)
    ELSE searchRecursive(node.Right, value)

\* A Search that finds every value.
SearchAlways(root, value) == TRUE

Search(root, value) == searchRecursive(root, value) # Nil

RECURSIVE findMinValue(_)
findMinValue(node) ==
    IF node.Left # Nil THEN findMinValue(node.Left) ELSE node.Value

RECURSIVE findMaxValue(_)
findMaxValue(node) ==
    IF node.Right # Nil THEN findMaxValue(node.Right) ELSE node.Value

\* A deleteRecursive that, at a node with two children, copies the successor
\* up and forgets to delete it from the right subtree.
RECURSIVE deleteRecursiveKeepSucc(_, _)
deleteRecursiveKeepSucc(node, value) ==
    IF node = Nil THEN Nil
    ELSE IF Less(value, node.Value)
    THEN [node EXCEPT !.Left = deleteRecursiveKeepSucc(node.Left, value)]
    ELSE IF Less(node.Value, value)
    THEN [node EXCEPT !.Right = deleteRecursiveKeepSucc(node.Right, value)]
    ELSE IF node.Left = Nil THEN node.Right
    ELSE IF node.Right = Nil THEN node.Left
    ELSE [node EXCEPT !.Value = findMinValue(node.Right)]

RECURSIVE deleteRecursive(_, _)
deleteRecursive(node, value) ==
    IF node = Nil THEN Nil
    ELSE IF Less(value, node.Value)
    THEN [node EXCEPT !.Left = deleteRecursive(node.Left, value)]
    ELSE IF Less(node.Value, value)
    THEN [node EXCEPT !.Right = deleteRecursive(node.Right, value)]
    ELSE IF node.Left = Nil THEN node.Right
    ELSE IF node.Right = Nil THEN node.Left
    ELSE LET succ == findMinValue(node.Right)
         IN  [node EXCEPT !.Value = succ,
                          !.Right = deleteRecursive(node.Right, succ)]

RECURSIVE inOrderRecursive(_)
inOrderRecursive(node) ==
    IF node = Nil THEN <<>>
    ELSE inOrderRecursive(node.Left) \o <<node.Value>> \o inOrderRecursive(node.Right)

InOrder(root) == inOrderRecursive(root)

RECURSIVE preOrderRecursive(_)
preOrderRecursive(node) ==
    IF node = Nil THEN <<>>
    ELSE <<node.Value>> \o preOrderRecursive(node.Left) \o preOrderRecursive(node.Right)

PreOrder(root) == preOrderRecursive(root)

\* LevelOrder's loop: queue holds the nodes still to visit, result the
\* values visited so far.
RECURSIVE levelOrderLoop(_, _)
levelOrderLoop(queue, result) ==
    IF Len(queue) = 0 THEN result
    ELSE LET node == Head(queue)
             q1 == IF node.Left # Nil THEN Append(Tail(queue), node.Left) ELSE Tail(queue)
             q2 == IF node.Right # Nil THEN Append(q1, node.Right) ELSE q1
         IN  levelOrderLoop(q2, Append(result, node.Value))

LevelOrder(root) == IF root = Nil THEN <<>> ELSE levelOrderLoop(<<root>>, <<>>)

RECURSIVE heightRecursive(_)
heightRecursive(node) ==
    IF node = Nil THEN -1
    ELSE LET l == heightRecursive(node.Left)
             r == heightRecursive(node.Right)
         IN  1 + (IF l > r THEN l ELSE r)

Height(root) == heightRecursive(root)

\* cloneRecursive walks the original in order and Inserts every value into
\* result, a BST given as [Root, Size].
RECURSIVE cloneRecursive(_, _)
cloneRecursive(node, result) ==
    IF node = Nil THEN result
    ELSE LET afterLeft == cloneRecursive(node.Left, result)
             ins == insertRecursive(afterLeft.Root, node.Value)
             afterNode == [Root |-> ins.node, Size |-> afterLeft.Size + ins.inc]
         IN  cloneRecursive(node.Right, afterNode)

NewBST == [Root |-> Nil, Size |-> 0]

Clone(root) == cloneRecursive(root, NewBST)

\* The zero value of T = int, returned with found = false.
ZeroT == 0

\* A nil-pointer dereference (result.Value on a nil result).
Panic == <<"panic">>

RECURSIVE sizeOf(_)
sizeOf(node) ==
    IF node = Nil THEN 0
    ELSE 1 + sizeOf(node.Left) + sizeOf(node.Right)

\* rankRecursive without the node itself in the count of the smaller values.
RECURSIVE rankRecursiveNoRoot(_, _)
rankRecursiveNoRoot(node, value) ==
    IF node = Nil THEN 0
    ELSE IF Less(value, node.Value) THEN rankRecursiveNoRoot(node.Left, value)
    ELSE IF Less(node.Value, value)
    THEN sizeOf(node.Left) + rankRecursiveNoRoot(node.Right, value)
    ELSE sizeOf(node.Left)

RECURSIVE rankRecursive(_, _)
rankRecursive(node, value) ==
    IF node = Nil THEN 0
    ELSE IF Less(value, node.Value) THEN rankRecursive(node.Left, value)
    ELSE IF Less(node.Value, value)
    THEN 1 + sizeOf(node.Left) + rankRecursive(node.Right, value)
    ELSE sizeOf(node.Left)

Rank(root, value) == rankRecursive(root, value)

RECURSIVE selectRecursive(_, _)
selectRecursive(node, rank) ==
    IF node = Nil THEN Nil
    ELSE LET leftSize == sizeOf(node.Left)
         IN  IF rank < leftSize THEN selectRecursive(node.Left, rank)
             ELSE IF rank > leftSize
             THEN selectRecursive(node.Right, rank - leftSize - 1)
             ELSE node

\* Select is (value, found); the bounds test reads the Size field.
Select(root, size, rank) ==
    IF rank < 0 \/ rank >= size THEN <<ZeroT, FALSE>>
    ELSE LET result == selectRecursive(root, rank)
         IN  IF result = Nil THEN Panic ELSE <<result.Value, TRUE>>

\* floorRecursive that gives up when the right subtree has no floor.
RECURSIVE floorRecursiveRightOnly(_, _)
floorRecursiveRightOnly(node, value) ==
    IF node = Nil THEN Nil
    ELSE IF node.Value = value THEN node
    ELSE IF Less(value, node.Value) THEN floorRecursiveRightOnly(node.Left, value)
    ELSE floorRecursiveRightOnly(node.Right, value)

RECURSIVE floorRecursive(_, _)
floorRecursive(node, value) ==
    IF node = Nil THEN Nil
    ELSE IF node.Value = value THEN node
    ELSE IF Less(value, node.Value) THEN floorRecursive(node.Left, value)
    ELSE LET floor == floorRecursive(node.Right, value)
         IN  IF floor # Nil THEN floor ELSE node

Floor(root, value) ==
    LET result == floorRecursive(root, value)
    IN  IF result = Nil THEN <<ZeroT, FALSE>> ELSE <<result.Value, TRUE>>

RECURSIVE ceilingRecursive(_, _)
ceilingRecursive(node, value) ==
    IF node = Nil THEN Nil
    ELSE IF node.Value = value THEN node
    ELSE IF Less(node.Value, value) THEN ceilingRecursive(node.Right, value)
    ELSE LET ceiling == ceilingRecursive(node.Left, value)
         IN  IF ceiling # Nil THEN ceiling ELSE node

Ceiling(root, value) ==
    LET result == ceilingRecursive(root, value)
    IN  IF result = Nil THEN <<ZeroT, FALSE>> ELSE <<result.Value, TRUE>>

\* Successor's loop that does not remember the node it turned left at.
RECURSIVE successorLoopForgetful(_, _, _)
successorLoopForgetful(current, successor, value) ==
    IF current = Nil
    THEN IF successor # Nil THEN <<successor.Value, TRUE>> ELSE <<ZeroT, FALSE>>
    ELSE IF Less(current.Value, value)
    THEN successorLoopForgetful(current.Right, successor, value)
    ELSE IF Less(value, current.Value)
    THEN successorLoopForgetful(current.Left, successor, value)
    ELSE IF current.Right # Nil THEN <<findMinValue(current.Right), TRUE>>
    ELSE successorLoopForgetful(Nil, successor, value)

\* Successor's loop and the return after it: current is the node looked at,
\* successor the last node the search turned left at.
RECURSIVE successorLoop(_, _, _)
successorLoop(current, successor, value) ==
    IF current = Nil
    THEN IF successor # Nil THEN <<successor.Value, TRUE>> ELSE <<ZeroT, FALSE>>
    ELSE IF Less(current.Value, value)
    THEN successorLoop(current.Right, successor, value)
    ELSE IF Less(value, current.Value)
    THEN successorLoop(current.Left, current, value)
    ELSE IF current.Right # Nil THEN <<findMinValue(current.Right), TRUE>>
    ELSE successorLoop(Nil, successor, value)

Successor(root, value) == successorLoop(root, Nil, value)

RECURSIVE predecessorLoop(_, _, _)
predecessorLoop(current, predecessor, value) ==
    IF current = Nil
    THEN IF predecessor # Nil THEN <<predecessor.Value, TRUE>> ELSE <<ZeroT, FALSE>>
    ELSE IF Less(value, current.Value)
    THEN predecessorLoop(current.Left, predecessor, value)
    ELSE IF Less(current.Value, value)
    THEN predecessorLoop(current.Right, current, value)
    ELSE IF current.Left # Nil THEN <<findMaxValue(current.Left), TRUE>>
    ELSE predecessorLoop(Nil, predecessor, value)

Predecessor(root, value) == predecessorLoop(root, Nil, value)

\* rangeRecursive that goes left only below nodes inside the range.
RECURSIVE rangeRecursivePruneLeft(_, _, _, _)
rangeRecursivePruneLeft(node, min, max, result) ==
    IF node = Nil THEN result
    ELSE LET inRange == ~Less(node.Value, min) /\ ~Less(max, node.Value)
             afterLeft == IF Less(min, node.Value) /\ inRange
                          THEN rangeRecursivePruneLeft(node.Left, min, max, result)
                          ELSE result
             afterNode == IF inRange THEN Append(afterLeft, node.Value) ELSE afterLeft
         IN  IF Less(node.Value, max)
             THEN rangeRecursivePruneLeft(node.Right, min, max, afterNode)
             ELSE afterNode

\* rangeRecursive appends to result and returns it.
RECURSIVE rangeRecursive(_, _, _, _)
rangeRecursive(node, min, max, result) ==
    IF node = Nil THEN result
    ELSE LET afterLeft == IF Less(min, node.Value)
                          THEN rangeRecursive(node.Left, min, max, result)
                          ELSE result
             afterNode == IF ~Less(node.Value, min) /\ ~Less(max, node.Value)
                          THEN Append(afterLeft, node.Value)
                          ELSE afterLeft
         IN  IF Less(node.Value, max)
             THEN rangeRecursive(node.Right, min, max, afterNode)
             ELSE afterNode

Range(root, min, max) == rangeRecursive(root, min, max, <<>>)

\* An abs that does not negate.
absNoNegate(x) == x

\* abs(x) of bst.go; the name abs is taken by the abstract map's parameter.
absOf(x) == IF x < 0 THEN -x ELSE x

\* isBalancedRecursive: -1 for a subtree that is not balanced, else the
\* number of levels of the subtree (0 for nil).
RECURSIVE isBalancedRecursive(_)
isBalancedRecursive(node) ==
    IF node = Nil THEN 0
    ELSE LET leftHeight == isBalancedRecursive(node.Left)
             rightHeight == isBalancedRecursive(node.Right)
         IN  IF leftHeight = -1 THEN -1
             ELSE IF rightHeight = -1 THEN -1
             ELSE IF absOf(leftHeight - rightHeight) > 1 THEN -1
             ELSE 1 + (IF leftHeight > rightHeight THEN leftHeight ELSE rightHeight)

IsBalanced(root) == isBalancedRecursive(root) # -1

BSTInsert(value) ==
    LET r == insertRecursive(bstRoot, value)
    IN  /\ bstRoot' = r.node
        /\ bstSize' = bstSize + r.inc
        /\ bstCall' = [op |-> "Insert", arg |-> value, preRoot |-> bstRoot,
                       preSize |-> bstSize]
        /\ UNCHANGED besideBST

BSTDelete(value) ==
    /\ IF Search(bstRoot, value)
       THEN /\ bstRoot' = deleteRecursive(bstRoot, value)
            /\ bstSize' = bstSize - 1
            /\ bstCall' = [op |-> "Delete", arg |-> value, ret |-> TRUE,
                           preRoot |-> bstRoot, preSize |-> bstSize]
       ELSE /\ UNCHANGED <<bstRoot, bstSize>>
            /\ bstCall' = [op |-> "Delete", arg |-> value, ret |-> FALSE,
                           preRoot |-> bstRoot, preSize |-> bstSize]
    /\ UNCHANGED besideBST

BSTClear ==
    /\ bstRoot' = Nil
    /\ bstSize' = 0
    /\ bstCall' = [op |-> "Clear", preRoot |-> bstRoot, preSize |-> bstSize]
    /\ UNCHANGED besideBST

BSTClone ==
    /\ UNCHANGED <<bstRoot, bstSize>>
    /\ bstCall' = [op |-> "Clone", ret |-> Clone(bstRoot), preRoot |-> bstRoot,
                   preSize |-> bstSize]
    /\ UNCHANGED besideBST

\* The queries leave the tree alone; bstCall keeps the argument and the
\* result.
BSTQuery(op, arg, ret) ==
    /\ UNCHANGED <<bstRoot, bstSize>>
    /\ bstCall' = [op |-> op, arg |-> arg, ret |-> ret, preRoot |-> bstRoot,
                   preSize |-> bstSize]
    /\ UNCHANGED besideBST

BSTRank(value) == BSTQuery("Rank", value, Rank(bstRoot, value))

BSTSelect(rank) == BSTQuery("Select", rank, Select(bstRoot, bstSize, rank))

BSTFloor(value) == BSTQuery("Floor", value, Floor(bstRoot, value))

BSTCeiling(value) == BSTQuery("Ceiling", value, Ceiling(bstRoot, value))

BSTSuccessor(value) == BSTQuery("Successor", value, Successor(bstRoot, value))

BSTPredecessor(value) ==
    BSTQuery("Predecessor", value, Predecessor(bstRoot, value))

BSTRange(min, max) == BSTQuery("Range", <<min, max>>, Range(bstRoot, min, max))

BSTHeight == BSTQuery("Height", <<>>, Height(bstRoot))

BSTIsBalanced == BSTQuery("IsBalanced", <<>>, IsBalanced(bstRoot))

BSTInit ==
    /\ bstRoot = Nil
    /\ bstSize = 0
    /\ bstCall = NoCall

BSTNext ==
    \/ \E value \in Elements : BSTInsert(value)
    \/ \E value \in Elements : BSTDelete(value)
    \/ BSTClear
    \/ BSTClone

(***************************************************************************)
(* TreeMap (src/stl/treemap.go), instantiated at K = int, V = string with  *)
(* the comparator lessInt of the tests.                                    *)
(***************************************************************************)
TreeMapNode(key, value) == [Key |-> key, Value |-> value, Left |-> Nil, Right |-> Nil]

less(a, b) == a < b

\* A putRecursive that leaves the node of an equal key as it is, the way
\* the BST's insertRecursive does.
RECURSIVE putRecursiveNoUpdate(_, _, _)
putRecursiveNoUpdate(node, key, value) ==
    IF node = Nil
    THEN [node |-> TreeMapNode(key, value), inc |-> 1]
    ELSE IF less(key, node.Key)
    THEN LET r == putRecursiveNoUpdate(node.Left, key, value)
         IN  [node |-> [node EXCEPT !.Left = r.node], inc |-> r.inc]
    ELSE IF less(node.Key, key)
    THEN LET r == putRecursiveNoUpdate(node.Right, key, value)
         IN  [node |-> [node EXCEPT !.Right = r.node], inc |-> r.inc]
    ELSE [node |-> node, inc |-> 0]

\* putRecursive returns the subtree after the Put; "inc" is the number of
\* times it ran tm.size++.
RECURSIVE putRecursive(_, _, _)
putRecursive(node, key, value) ==
    IF node = Nil
    THEN [node |-> TreeMapNode(key, value), inc |-> 1]
    ELSE IF less(key, node.Key)
    THEN LET r == putRecursive(node.Left, key, value)
         IN  [node |-> [node EXCEPT !.Left = r.node], inc |-> r.inc]
    ELSE IF less(node.Key, key)
    THEN LET r == putRecursive(node.Right, key, value)
         IN  [node |-> [node EXCEPT !.Right = r.node], inc |-> r.inc]
    ELSE [node |-> [node EXCEPT !.Value = value], inc |-> 0]

RECURSIVE getNode(_, _)
getNode(node, key) ==
    IF node = Nil THEN Nil
    ELSE IF less(key, node.Key) THEN getNode(node.Left, key)
    ELSE IF less(node.Key, key) THEN getNode(node.Right, key)
    ELSE node

\* Get returns the pair (value, found).
Get(root, key) ==
    LET node == getNode(root, key)
    IN  IF node # Nil THEN <<node.Value, TRUE>> ELSE <<ZeroV, FALSE>>

ContainsKey(root, key) == getNode(root, key) # Nil

RECURSIVE minNode(_)
minNode(node) == IF node.Left # Nil THEN minNode(node.Left) ELSE node

\* A removeRecursive that, at a node with two children, copies the
\* successor's key but not its value.
RECURSIVE removeRecursiveKeyOnly(_, _)
removeRecursiveKeyOnly(node, key) ==
    IF node = Nil THEN Nil
    ELSE IF less(key, node.Key)
    THEN [node EXCEPT !.Left = removeRecursiveKeyOnly(node.Left, key)]
    ELSE IF less(node.Key, key)
    THEN [node EXCEPT !.Right = removeRecursiveKeyOnly(node.Right, key)]
    ELSE IF node.Left = Nil THEN node.Right
    ELSE IF node.Right = Nil THEN node.Left
    ELSE LET successor == minNode(node.Right)
         IN  [node EXCEPT !.Key = successor.Key,
                          !.Right = removeRecursiveKeyOnly(node.Right, successor.Key)]

RECURSIVE removeRecursive(_, _)
removeRecursive(node, key) ==
    IF node = Nil THEN Nil
    ELSE IF less(key, node.Key)
    THEN [node EXCEPT !.Left = removeRecursive(node.Left, key)]
    ELSE IF less(node.Key, key)
    THEN [node EXCEPT !.Right = removeRecursive(node.Right, key)]
    ELSE IF node.Left = Nil THEN node.Right
    ELSE IF node.Right = Nil THEN node.Left
    ELSE LET successor == minNode(node.Right)
         IN  [node EXCEPT !.Key = successor.Key,
                          !.Value = successor.Value,
                          !.Right = removeRecursive(node.Right, successor.Key)]

\* inOrderTraversal, as the sequence of the nodes' (Key, Value) pairs that
\* the callback is applied to.
RECURSIVE inOrderTraversal(_)
inOrderTraversal(node) ==
    IF node = Nil THEN <<>>
    ELSE inOrderTraversal(node.Left) \o <<[Key |-> node.Key, Value |-> node.Value]>>
             \o inOrderTraversal(node.Right)

Entries(root) == inOrderTraversal(root)

Keys(root) == [i \in 1..Len(Entries(root)) |-> Entries(root)[i].Key]

RECURSIVE tmHeightRecursive(_)
tmHeightRecursive(node) ==
    IF node = Nil THEN -1
    ELSE LET leftHeight == tmHeightRecursive(node.Left)
             rightHeight == tmHeightRecursive(node.Right)
         IN  IF leftHeight > rightHeight THEN 1 + leftHeight ELSE 1 + rightHeight

TMHeight(root) == tmHeightRecursive(root)

\* cloneRecursive walks the original in order and Puts every pair into
\* result, a TreeMap given as [root, size].
RECURSIVE tmCloneRecursive(_, _)
tmCloneRecursive(node, result) ==
    IF node = Nil THEN result
    ELSE LET afterLeft == tmCloneRecursive(node.Left, result)
             put == putRecursive(afterLeft.root, node.Key, node.Value)
             afterNode == [root |-> put.node, size |-> afterLeft.size + put.inc]
         IN  tmCloneRecursive(node.Right, afterNode)

NewTreeMap == [root |-> Nil, size |-> 0]

TMClone(root) == tmCloneRecursive(root, NewTreeMap)

\* The state of the TreeMap and of the abstract map before a call.
TMPre == [preRoot |-> tmRoot, preSize |-> tmSize, preAbs |-> tmAbs]

\* The abstract map after put(key, value) and after remove(key).
AbsPut(abs, key, value) ==
    [k \in DOMAIN abs \cup {key} |-> IF k = key THEN value ELSE abs[k]]

AbsRemove(abs, key) == [k \in DOMAIN abs \ {key} |-> abs[k]]

EmptyAbs == [k \in {} |-> ZeroV]

\* The zero value of K = int, returned with found = false.
ZeroK == 0

RECURSIVE tmSizeOf(_)
tmSizeOf(node) ==
    IF node = Nil THEN 0
    ELSE 1 + tmSizeOf(node.Left) + tmSizeOf(node.Right)

RECURSIVE tmRankRecursive(_, _)
tmRankRecursive(node, key) ==
    IF node = Nil THEN 0
    ELSE IF less(key, node.Key) THEN tmRankRecursive(node.Left, key)
    ELSE IF less(node.Key, key)
    THEN 1 + tmSizeOf(node.Left) + tmRankRecursive(node.Right, key)
    ELSE tmSizeOf(node.Left)

TMRank(root, key) == tmRankRecursive(root, key)

RECURSIVE tmSelectRecursive(_, _)
tmSelectRecursive(node, rank) ==
    IF node = Nil THEN Nil
    ELSE LET leftSize == tmSizeOf(node.Left)
         IN  IF rank < leftSize THEN tmSelectRecursive(node.Left, rank)
             ELSE IF rank > leftSize
             THEN tmSelectRecursive(node.Right, rank - leftSize - 1)
             ELSE node

\* Select is (key, value, found); the bounds test reads the size field.
TMSelect(root, size, rank) ==
    IF rank < 0 \/ rank >= size THEN <<ZeroK, ZeroV, FALSE>>
    ELSE LET result == tmSelectRecursive(root, rank)
         IN  IF result = Nil THEN Panic ELSE <<result.Key, result.Value, TRUE>>

RECURSIVE tmFloorRecursive(_, _)
tmFloorRecursive(node, key) ==
    IF node = Nil THEN Nil
    ELSE IF node.Key = key THEN node
    ELSE IF less(key, node.Key) THEN tmFloorRecursive(node.Left, key)
    ELSE LET floor == tmFloorRecursive(node.Right, key)
         IN  IF floor # Nil THEN floor ELSE node

\* The (key, value, found) a method returns for the node it found.
TMResult(result) ==
    IF result = Nil THEN <<ZeroK, ZeroV, FALSE>>
    ELSE <<result.Key, result.Value, TRUE>>

TMFloor(root, key) == TMResult(tmFloorRecursive(root, key))

RECURSIVE tmCeilingRecursive(_, _)
tmCeilingRecursive(node, key) ==
    IF node = Nil THEN Nil
    ELSE IF node.Key = key THEN node
    ELSE IF less(node.Key, key) THEN tmCeilingRecursive(node.Right, key)
    ELSE LET ceiling == tmCeilingRecursive(node.Left, key)
         IN  IF ceiling # Nil THEN ceiling ELSE node

TMCeiling(root, key) == TMResult(tmCeilingRecursive(root, key))

RECURSIVE lowerRecursive(_, _)
lowerRecursive(node, key) ==
    IF node = Nil THEN Nil
    ELSE IF less(node.Key, key)
    THEN LET lower == lowerRecursive(node.Right, key)
         IN  IF lower # Nil THEN lower ELSE node
    ELSE lowerRecursive(node.Left, key)

Lower(root, key) == TMResult(lowerRecursive(root, key))

RECURSIVE higherRecursive(_, _)
higherRecursive(node, key) ==
    IF node = Nil THEN Nil
    ELSE IF less(key, node.Key)
    THEN LET higher == higherRecursive(node.Left, key)
         IN  IF higher # Nil THEN higher ELSE node
    ELSE higherRecursive(node.Right, key)

Higher(root, key) == TMResult(higherRecursive(root, key))

RECURSIVE tmRangeRecursive(_, _, _, _)
tmRangeRecursive(node, min, max, result) ==
    IF node = Nil THEN result
    ELSE LET afterLeft == IF less(min, node.Key)
                          THEN tmRangeRecursive(node.Left, min, max, result)
                          ELSE result
             afterNode == IF ~less(node.Key, min) /\ ~less(max, node.Key)
                          THEN Append(afterLeft,
                                      [Key |-> node.Key, Value |-> node.Value])
                          ELSE afterLeft
         IN  IF less(node.Key, max)
             THEN tmRangeRecursive(node.Right, min, max, afterNode)
             ELSE afterNode

TMRange(root, min, max) == tmRangeRecursive(root, min, max, <<>>)

\* TreeMap's isBalancedRecursive, with the abs of bst.go.
RECURSIVE tmIsBalancedRecursive(_)
tmIsBalancedRecursive(node) ==
    IF node = Nil THEN 0
    ELSE LET leftHeight == tmIsBalancedRecursive(node.Left)
             rightHeight == tmIsBalancedRecursive(node.Right)
         IN  IF leftHeight = -1 THEN -1
             ELSE IF rightHeight = -1 THEN -1
             ELSE IF absOf(leftHeight - rightHeight) > 1 THEN -1
             ELSE IF leftHeight > rightHeight THEN 1 + leftHeight
             ELSE 1 + rightHeight

TMIsBalanced(root) == tmIsBalancedRecursive(root) # -1

TMPut(key, value) ==
    LET r == putRecursive(tmRoot, key, value)
    IN  /\ tmRoot' = r.node
        /\ tmSize' = tmSize + r.inc
        /\ tmAbs' = AbsPut(tmAbs, key, value)
        /\ tmCall' = [op |-> "Put", key |-> key, value |-> value, pre |-> TMPre]
        /\ UNCHANGED besideTreeMap

TMRemove(key) ==
    /\ IF ContainsKey(tmRoot, key)
       THEN /\ tmRoot' = removeRecursive(tmRoot, key)
            /\ tmSize' = tmSize - 1
            /\ tmCall' = [op |-> "Remove", key |-> key, ret |-> TRUE, pre |-> TMPre]
       ELSE /\ UNCHANGED <<tmRoot, tmSize>>
            /\ tmCall' = [op |-> "Remove", key |-> key, ret |-> FALSE, pre |-> TMPre]
    /\ tmAbs' = AbsRemove(tmAbs, key)
    /\ UNCHANGED besideTreeMap

TMClear ==
    /\ tmRoot' = Nil
    /\ tmSize' = 0
    /\ tmAbs' = EmptyAbs
    /\ tmCall' = [op |-> "Clear", pre |-> TMPre]
    /\ UNCHANGED besideTreeMap

TMCloneCall ==
    /\ UNCHANGED <<tmRoot, tmSize, tmAbs>>
    /\ tmCall' = [op |-> "Clone", ret |-> TMClone(tmRoot), pre |-> TMPre]
    /\ UNCHANGED besideTreeMap

\* The queries leave the map alone; tmCall keeps the argument and the
\* result.
TMQuery(op, key, ret) ==
    /\ UNCHANGED <<tmRoot, tmSize, tmAbs>>
    /\ tmCall' = [op |-> op, key |-> key, ret |-> ret, pre |-> TMPre]
    /\ UNCHANGED besideTreeMap

TMRankCall(key) == TMQuery("Rank", key, TMRank(tmRoot, key))

TMSelectCall(rank) == TMQuery("Select", rank, TMSelect(tmRoot, tmSize, rank))

TMFloorCall(key) == TMQuery("Floor", key, TMFloor(tmRoot, key))

TMCeilingCall(key) == TMQuery("Ceiling", key, TMCeiling(tmRoot, key))

TMLowerCall(key) == TMQuery("Lower", key, Lower(tmRoot, key))

TMHigherCall(key) == TMQuery("Higher", key, Higher(tmRoot, key))

TMRangeCall(min, max) == TMQuery("Range", <<min, max>>, TMRange(tmRoot, min, max))

TMHeightCall == TMQuery("Height", <<>>, TMHeight(tmRoot))

TMIsBalancedCall == TMQuery("IsBalanced", <<>>, TMIsBalanced(tmRoot))

TMInit ==
    /\ tmRoot = Nil
    /\ tmSize = 0
    /\ tmAbs = EmptyAbs
    /\ tmCall = NoCall

TMNext ==
    \/ \E key \in KeyDomain, value \in TMValues : TMPut(key, value)
    \/ \E key \in KeyDomain : TMRemove(key)
    \/ TMClear
    \/ TMCloneCall

(***************************************************************************)
(* Trie (src/stl/set.go).  A node is named by the path of runes that leads *)
(* to it from the root, which is the empty path; node.children is the set  *)
(* of the paths one rune longer.                                           *)
(***************************************************************************)
TrieNode == [isEnd |-> FALSE, value |-> NilValue]

NewTrieNodes == [path \in {<<>>} |-> TrieNode]

\* The bytes of a Go string: the UTF-8 encoding of its runes (one byte below
\* U+0080, two bytes below U+0800).
RECURSIVE UTF8(_)
UTF8(word) ==
    IF word = <<>> THEN <<>>
    ELSE LET r == Head(word)
         IN  (IF r < 128 THEN <<r>> ELSE <<192 + (r \div 64), 128 + (r % 64)>>)
                 \o UTF8(Tail(word))

\* node.children of the node at path: the paths of its child nodes.
Children(nodes, path) ==
    {p \in DOMAIN nodes : Len(p) = Len(path) + 1 /\ SubSeq(p, 1, Len(path)) = path}

Prefixes(word) == {SubSeq(word, 1, n) : n \in 0..Len(word)}

\* An InsertWithValue that counts the word whether or not its node was
\* marked before.
InsertWithValueCountAlways(nodes, size, word, value) ==
    LET walked == [p \in DOMAIN nodes \cup Prefixes(word) |->
                       IF p \in DOMAIN nodes THEN nodes[p] ELSE TrieNode]
    IN  [nodes |-> [walked EXCEPT ![word] = [isEnd |-> TRUE, value |-> value]],
         size |-> size + 1]

\* InsertWithValue ranges over the runes of word, creates the missing nodes
\* on its path and marks the last one.
InsertWithValue(nodes, size, word, value) ==
    LET walked == [p \in DOMAIN nodes \cup Prefixes(word) |->
                       IF p \in DOMAIN nodes THEN nodes[p] ELSE TrieNode]
    IN  [nodes |-> [walked EXCEPT ![word] = [isEnd |-> TRUE, value |-> value]],
         size |-> IF ~walked[word].isEnd THEN size + 1 ELSE size]

\* searchNode ranges over the runes of word; Nil when the path breaks off.
searchNode(nodes, word) == IF word \in DOMAIN nodes THEN nodes[word] ELSE Nil

TrieSearch(nodes, word) ==
    LET node == searchNode(nodes, word) IN node # Nil /\ node.isEnd

\* A SearchWithValue that does not look at isEnd.
SearchWithValueAnyNode(nodes, word) ==
    LET node == searchNode(nodes, word)
    IN  IF node # Nil THEN <<node.value, TRUE>> ELSE <<NilValue, FALSE>>

SearchWithValue(nodes, word) ==
    LET node == searchNode(nodes, word)
    IN  IF node # Nil /\ node.isEnd THEN <<node.value, TRUE>> ELSE <<NilValue, FALSE>>

StartsWith(nodes, prefix) == searchNode(nodes, prefix) # Nil

\* delete(node.children, char): the child and all below it go.
DeleteChild(nodes, child) ==
    [p \in {q \in DOMAIN nodes :
              ~(Len(q) >= Len(child) /\ SubSeq(q, 1, Len(child)) = child)} |-> nodes[p]]

\* A deleteRecursive that never asks for the removal of the word's node.
RECURSIVE trieDeleteRecursiveNoPrune(_, _, _, _, _)
trieDeleteRecursiveNoPrune(nodes, size, path, bytes, index) ==
    IF index = Len(bytes)
    THEN IF nodes[path].isEnd
         THEN [nodes |-> [nodes EXCEPT ![path] = [isEnd |-> FALSE, value |-> NilValue]],
               size |-> size - 1,
               ret |-> FALSE]
         ELSE [nodes |-> nodes, size |-> size, ret |-> FALSE]
    ELSE LET char == bytes[index + 1]
             child == Append(path, char)
         IN  IF child \notin DOMAIN nodes
             THEN [nodes |-> nodes, size |-> size, ret |-> FALSE]
             ELSE LET r == trieDeleteRecursiveNoPrune(nodes, size, child, bytes, index + 1)
                  IN  IF r.ret
                      THEN LET pruned == DeleteChild(r.nodes, child)
                           IN  [nodes |-> pruned, size |-> r.size,
                                ret |-> ~pruned[path].isEnd
                                          /\ Cardinality(Children(pruned, path)) = 0]
                      ELSE [nodes |-> r.nodes, size |-> r.size, ret |-> FALSE]

\* deleteRecursive at the node at path, for the string whose bytes are
\* bytes, at byte index (from 0).  It indexes the string by bytes and takes
\* each byte as a rune.  The result is the trie after the call and the
\* returned bool.
RECURSIVE trieDeleteRecursive(_, _, _, _, _)
trieDeleteRecursive(nodes, size, path, bytes, index) ==
    IF index = Len(bytes)
    THEN IF nodes[path].isEnd
         THEN [nodes |-> [nodes EXCEPT ![path] = [isEnd |-> FALSE, value |-> NilValue]],
               size |-> size - 1,
               ret |-> Cardinality(Children(nodes, path)) = 0]
         ELSE [nodes |-> nodes, size |-> size, ret |-> FALSE]
    ELSE LET char == bytes[index + 1]
             child == Append(path, char)
         IN  IF child \notin DOMAIN nodes
             THEN [nodes |-> nodes, size |-> size, ret |-> FALSE]
             ELSE LET r == trieDeleteRecursive(nodes, size, child, bytes, index + 1)
                  IN  IF r.ret
                      THEN LET pruned == DeleteChild(r.nodes, child)
                           IN  [nodes |-> pruned, size |-> r.size,
                                ret |-> ~pruned[path].isEnd
                                          /\ Cardinality(Children(pruned, path)) = 0]
                      ELSE [nodes |-> r.nodes, size |-> r.size, ret |-> FALSE]

TrieDeleteWord(nodes, size, word) == trieDeleteRecursive(nodes, size, <<>>, UTF8(word), 0)

\* collectWords from the node at path.  The children are visited in the
\* order of Go's map iteration, which is not specified, so the result is
\* kept as the bag of the words appended.
RECURSIVE collectWords(_, _)
collectWords(nodes, path) ==
    LET RECURSIVE OverChildren(_)
        OverChildren(cs) ==
            IF cs = {} THEN EmptyBag
            ELSE LET c == CHOOSE x \in cs : TRUE
                 IN  collectWords(nodes, c) (+) OverChildren(cs \ {c})
    IN  (IF nodes[path].isEnd THEN SetToBag({path}) ELSE EmptyBag)
            (+) OverChildren(Children(nodes, path))

GetAllWords(nodes) == collectWords(nodes, <<>>)

\* The pattern characters '?' and '*'.
Question == 63

Star == 42

\* matchPattern at the node at path, for the pattern whose bytes are
\* pattern, at byte index (from 1).  It indexes the pattern by bytes and
\* takes each byte as a rune; prefix is the node's path.  The order of the
\* words follows Go's map iteration, so the result is kept as the bag of the
\* words appended.
RECURSIVE matchPattern(_, _, _, _)
matchPattern(nodes, path, pattern, index) ==
    LET RECURSIVE OverChildren(_, _)
        OverChildren(cs, next) ==
            IF cs = {} THEN EmptyBag
            ELSE LET c == CHOOSE x \in cs : TRUE
                 IN  matchPattern(nodes, c, pattern, next)
                         (+) OverChildren(cs \ {c}, next)
    IN  IF index = Len(pattern) + 1
        THEN IF nodes[path].isEnd THEN SetToBag({path}) ELSE EmptyBag
        ELSE IF pattern[index] = Question
        THEN OverChildren(Children(nodes, path), index + 1)
        ELSE IF pattern[index] = Star
        THEN matchPattern(nodes, path, pattern, index + 1)
                 (+) OverChildren(Children(nodes, path), index)
        ELSE IF Append(path, pattern[index]) \in DOMAIN nodes
        THEN matchPattern(nodes, Append(path, pattern[index]), pattern, index + 1)
        ELSE EmptyBag

\* GetWordsWithPattern(pattern), pattern given by its runes.
GetWordsWithPattern(nodes, pattern) == matchPattern(nodes, <<>>, UTF8(pattern), 1)

\* min(a, b) of set.go; the name min is taken by Range's parameter.
minOf(a, b) == IF a < b THEN a ELSE b

\* dp[i][j] of EditDistance's table for the strings whose bytes are word1
\* and word2: the table is filled row by row from the same recurrence.
RECURSIVE dp(_, _, _, _)
dp(word1, word2, i, j) ==
    IF i = 0 THEN j
    ELSE IF j = 0 THEN i
    ELSE IF word1[i] = word2[j] THEN dp(word1, word2, i - 1, j - 1)
    ELSE 1 + minOf(dp(word1, word2, i - 1, j),
                   minOf(dp(word1, word2, i, j - 1), dp(word1, word2, i - 1, j - 1)))

\* EditDistance(word1, word2), the words given by their runes: len and the
\* index expressions count and read bytes.
EditDistance(word1, word2) ==
    dp(UTF8(word1), UTF8(word2), Len(UTF8(word1)), Len(UTF8(word2)))

\* A LongestCommonPrefix loop that walks on through the ends of words.
RECURSIVE longestCommonPrefixLoopPastEnds(_, _)
longestCommonPrefixLoopPastEnds(nodes, path) ==
    IF Cardinality(Children(nodes, path)) = 1
    THEN longestCommonPrefixLoopPastEnds(nodes, CHOOSE c \in Children(nodes, path) : TRUE)
    ELSE path

\* The loop of LongestCommonPrefix from the node at path on: down the
\* single child while there is exactly one and no word ends at the node.
\* prefix is the node's path.
RECURSIVE longestCommonPrefixLoop(_, _)
longestCommonPrefixLoop(nodes, path) ==
    IF Cardinality(Children(nodes, path)) = 1 /\ ~nodes[path].isEnd
    THEN longestCommonPrefixLoop(nodes, CHOOSE c \in Children(nodes, path) : TRUE)
    ELSE path

\* LongestCommonPrefix(); IsEmpty() is size == 0.
LongestCommonPrefix(nodes, size) ==
    IF size = 0 THEN <<>> ELSE longestCommonPrefixLoop(nodes, <<>>)

\* The state of the Trie and of the abstract set before a call.
TriePre == [nodes |-> trieNodes, size |-> trieSize, words |-> trieWords]

TrieInsertWithValue(word, value) ==
    LET r == InsertWithValue(trieNodes, trieSize, word, value)
    IN  /\ trieNodes' = r.nodes
        /\ trieSize' = r.size
        /\ trieWords' = trieWords \cup {word}
        /\ trieCall' = [op |-> "InsertWithValue", word |-> word, value |-> value,
                        pre |-> TriePre]
        /\ UNCHANGED besideTrie

\* Insert(word) is InsertWithValue(word, nil).
TrieInsert(word) ==
    LET r == InsertWithValue(trieNodes, trieSize, word, NilValue)
    IN  /\ trieNodes' = r.nodes
        /\ trieSize' = r.size
        /\ trieWords' = trieWords \cup {word}
        /\ trieCall' = [op |-> "Insert", word |-> word, value |-> NilValue,
                        pre |-> TriePre]
        /\ UNCHANGED besideTrie

TrieDelete(word) ==
    LET r == TrieDeleteWord(trieNodes, trieSize, word)
    IN  /\ trieNodes' = r.nodes
        /\ trieSize' = r.size
        /\ trieWords' = trieWords \ {word}
        /\ trieCall' = [op |-> "Delete", word |-> word, ret |-> r.ret, pre |-> TriePre]
        /\ UNCHANGED besideTrie

TrieClear ==
    /\ trieNodes' = NewTrieNodes
    /\ trieSize' = 0
    /\ trieWords' = {}
    /\ trieCall' = [op |-> "Clear", pre |-> TriePre]
    /\ UNCHANGED besideTrie

TrieGetAllWords ==
    /\ UNCHANGED <<trieNodes, trieSize, trieWords>>
    /\ trieCall' = [op |-> "GetAllWords", ret |-> GetAllWords(trieNodes), pre |-> TriePre]
    /\ UNCHANGED besideTrie

TrieGetWordsWithPattern(pattern) ==
    /\ UNCHANGED <<trieNodes, trieSize, trieWords>>
    /\ trieCall' = [op |-> "GetWordsWithPattern", pattern |-> pattern,
                    ret |-> GetWordsWithPattern(trieNodes, pattern), pre |-> TriePre]
    /\ UNCHANGED besideTrie

TrieEditDistance(word1, word2) ==
    /\ UNCHANGED <<trieNodes, trieSize, trieWords>>
    /\ trieCall' = [op |-> "EditDistance", word1 |-> word1, word2 |-> word2,
                    ret |-> EditDistance(word1, word2), pre |-> TriePre]
    /\ UNCHANGED besideTrie

TrieLongestCommonPrefix ==
    /\ UNCHANGED <<trieNodes, trieSize, trieWords>>
    /\ trieCall' = [op |-> "LongestCommonPrefix",
                    ret |-> LongestCommonPrefix(trieNodes, trieSize), pre |-> TriePre]
    /\ UNCHANGED besideTrie

TrieInit ==
    /\ trieNodes = NewTrieNodes
    /\ trieSize = 0
    /\ trieWords = {}
    /\ trieCall = NoCall

\* Calls that only add words.
TrieInsertNext ==
    \/ \E word \in Words : TrieInsert(word)
    \/ \E word \in Words, value \in TrieValues : TrieInsertWithValue(word, value)
    \/ TrieGetAllWords

TrieNext ==
    \/ \E word \in Words : TrieInsert(word)
    \/ \E word \in Words, value \in TrieValues : TrieInsertWithValue(word, value)
    \/ \E word \in Words : TrieDelete(word)
    \/ TrieClear
    \/ TrieGetAllWords

(***************************************************************************)
(* Graph (src/stl/graph.go), instantiated at T = int.                      *)
(***************************************************************************)
NewGraph == [n \in {} |-> <<>>]

AddNode(adj, node) == IF node \in DOMAIN adj THEN adj ELSE adj @@ (node :> <<>>)

AddEdge(adj, dir, from, to) ==
    LET withNodes == AddNode(AddNode(adj, from), to)
        withOut == [withNodes EXCEPT ![from] = Append(@, to)]
    IN  IF ~dir THEN [withOut EXCEPT ![to] = Append(@, from)] ELSE withOut

\* A RemoveEdge loop without its break: the list without any entry equal
\* to x.
RECURSIVE RemoveEvery(_, _)
RemoveEvery(neighbors, x) ==
    IF neighbors = <<>> THEN <<>>
    ELSE IF Head(neighbors) = x THEN RemoveEvery(Tail(neighbors), x)
    ELSE <<Head(neighbors)>> \o RemoveEvery(Tail(neighbors), x)

\* The loop of RemoveEdge over one adjacency list: the list without the
\* first entry equal to x.
RECURSIVE RemoveFirst(_, _)
RemoveFirst(neighbors, x) ==
    IF neighbors = <<>> THEN <<>>
    ELSE IF Head(neighbors) = x THEN Tail(neighbors)
    ELSE <<Head(neighbors)>> \o RemoveFirst(Tail(neighbors), x)

\* A RemoveEdge without the branch for undirected graphs.
RemoveEdgeOneWay(adj, dir, from, to) ==
    IF from \in DOMAIN adj THEN [adj EXCEPT ![from] = RemoveFirst(@, to)] ELSE adj

RemoveEdge(adj, dir, from, to) ==
    LET outGone == IF from \in DOMAIN adj
                   THEN [adj EXCEPT ![from] = RemoveFirst(@, to)]
                   ELSE adj
    IN  IF ~dir /\ to \in DOMAIN outGone
        THEN [outGone EXCEPT ![to] = RemoveFirst(@, from)]
        ELSE outGone

\* The orders in which a range over the node table may visit its keys.
IterationOrders(adj) ==
    {order \in [1..Cardinality(DOMAIN adj) -> DOMAIN adj] :
        \A i, j \in DOMAIN order : i # j => order[i] # order[j]}

\* The first loop of RemoveNode: RemoveEdge(from, node) for the keys from of
\* the node table, in the order given.
RECURSIVE RemoveEdgesTo(_, _, _, _)
RemoveEdgesTo(adj, dir, order, node) ==
    IF order = <<>> THEN adj
    ELSE RemoveEdgesTo(RemoveEdge(adj, dir, Head(order), node), dir, Tail(order), node)

RemoveNode(adj, dir, order, node) ==
    LET edgesGone == RemoveEdgesTo(adj, dir, order, node)
    IN  [n \in DOMAIN edgesGone \ {node} |-> edgesGone[n]]

HasNode(adj, node) == node \in DOMAIN adj

HasEdge(adj, from, to) ==
    from \in DOMAIN adj /\ \E i \in 1..Len(adj[from]) : adj[from][i] = to

NodeCount(adj) == Cardinality(DOMAIN adj)

RECURSIVE SumOfLengths(_, _)
SumOfLengths(adj, keys) ==
    IF keys = {} THEN 0
    ELSE LET k == CHOOSE x \in keys : TRUE
         IN  Len(adj[k]) + SumOfLengths(adj, keys \ {k})

EdgeCount(adj, dir) ==
    LET total == SumOfLengths(adj, DOMAIN adj)
    IN  IF ~dir THEN total \div 2 ELSE total

Degree(adj, node) == IF node \in DOMAIN adj THEN Len(adj[node]) ELSE 0

GetNeighbors(adj, node) == IF node \in DOMAIN adj THEN adj[node] ELSE <<>>

\* hasCycleDFS and its loop over the neighbors from the i-th on.  visited
\* and recStack are the sets of the nodes the maps hold true for; the
\* result is [visited, recStack, ret].
RECURSIVE hasCycleDFS(_, _, _, _)

\* hasCycleNeighbors without recStack[node] = false at the end.
RECURSIVE hasCycleNeighborsNoPop(_, _, _, _, _, _)
hasCycleNeighborsNoPop(adj, node, neighbors, i, visited, recStack) ==
    IF i > Len(neighbors)
    THEN [visited |-> visited, recStack |-> recStack, ret |-> FALSE]
    ELSE LET neighbor == neighbors[i]
         IN  IF neighbor \notin visited
             THEN LET r == hasCycleDFS(adj, neighbor, visited, recStack)
                  IN  IF r.ret THEN r
                      ELSE hasCycleNeighborsNoPop(adj, node, neighbors, i + 1,
                                                  r.visited, r.recStack)
             ELSE IF neighbor \in recStack
             THEN [visited |-> visited, recStack |-> recStack, ret |-> TRUE]
             ELSE hasCycleNeighborsNoPop(adj, node, neighbors, i + 1, visited,
                                         recStack)

RECURSIVE hasCycleNeighbors(_, _, _, _, _, _)
hasCycleNeighbors(adj, node, neighbors, i, visited, recStack) ==
    IF i > Len(neighbors)
    THEN [visited |-> visited, recStack |-> recStack \ {node}, ret |-> FALSE]
    ELSE LET neighbor == neighbors[i]
         IN  IF neighbor \notin visited
             THEN LET r == hasCycleDFS(adj, neighbor, visited, recStack)
                  IN  IF r.ret THEN r
                      ELSE hasCycleNeighbors(adj, node, neighbors, i + 1,
                                             r.visited, r.recStack)
             ELSE IF neighbor \in recStack
             THEN [visited |-> visited, recStack |-> recStack, ret |-> TRUE]
             ELSE hasCycleNeighbors(adj, node, neighbors, i + 1, visited, recStack)

hasCycleDFS(adj, node, visited, recStack) ==
    hasCycleNeighbors(adj, node, GetNeighbors(adj, node), 1,
                      visited \cup {node}, recStack \cup {node})

\* HasCycle's loop over the nodes, in the order the map yields them.
RECURSIVE hasCycleNodes(_, _, _, _, _)
hasCycleNodes(adj, order, i, visited, recStack) ==
    IF i > Len(order) THEN FALSE
    ELSE IF order[i] \notin visited
    THEN LET r == hasCycleDFS(adj, order[i], visited, recStack)
         IN  IF r.ret THEN TRUE
             ELSE hasCycleNodes(adj, order, i + 1, r.visited, r.recStack)
    ELSE hasCycleNodes(adj, order, i + 1, visited, recStack)

HasCycle(adj, order) == hasCycleNodes(adj, order, 1, {}, {})

\* topologicalSortDFS and its loop over the neighbors from the i-th on; the
\* result is [visited, result].
RECURSIVE topologicalSortDFS(_, _, _, _)
RECURSIVE topologicalSortNeighbors(_, _, _, _, _, _)
topologicalSortNeighbors(adj, node, neighbors, i, visited, result) ==
    IF i > Len(neighbors)
    THEN [visited |-> visited, result |-> Append(result, node)]
    ELSE IF neighbors[i] \notin visited
    THEN LET r == topologicalSortDFS(adj, neighbors[i], visited, result)
         IN  topologicalSortNeighbors(adj, node, neighbors, i + 1,
                                      r.visited, r.result)
    ELSE topologicalSortNeighbors(adj, node, neighbors, i + 1, visited, result)

topologicalSortDFS(adj, node, visited, result) ==
    topologicalSortNeighbors(adj, node, GetNeighbors(adj, node), 1,
                             visited \cup {node}, result)

\* TopologicalSort's loop over the nodes, in the order the map yields them.
RECURSIVE topologicalSortNodes(_, _, _, _, _)
topologicalSortNodes(adj, order, i, visited, result) ==
    IF i > Len(order) THEN result
    ELSE IF order[i] \notin visited
    THEN LET r == topologicalSortDFS(adj, order[i], visited, result)
         IN  topologicalSortNodes(adj, order, i + 1, r.visited, r.result)
    ELSE topologicalSortNodes(adj, order, i + 1, visited, result)

\* The result left as the depth-first searches appended it.
NotReversed(seq) == seq

Reverse(seq) == [i \in 1..Len(seq) |-> seq[Len(seq) + 1 - i]]

\* TopologicalSort is (result, ok); cycleOrder and sortOrder are the orders
\* in which HasCycle's and TopologicalSort's own loop get the nodes.
TopologicalSort(adj, dir, cycleOrder, sortOrder) ==
    IF ~dir THEN <<<<>>, FALSE>>
    ELSE IF HasCycle(adj, cycleOrder) THEN <<<<>>, FALSE>>
    ELSE <<Reverse(topologicalSortNodes(adj, sortOrder, 1, {}, <<>>)), TRUE>>

\* The zero value of T = int, which a map lookup gives for a missing key.
ZeroNode == 0

\* The loop of ShortestPath over the neighbors of node from the i-th on; the
\* result is [visited, parent, queue].
RECURSIVE enqueueNeighbors(_, _, _, _, _, _)
enqueueNeighbors(neighbors, i, node, visited, parent, queue) ==
    IF i > Len(neighbors)
    THEN [visited |-> visited, parent |-> parent, queue |-> queue]
    ELSE LET neighbor == neighbors[i]
         IN  IF neighbor \notin visited
             THEN enqueueNeighbors(neighbors, i + 1, node, visited \cup {neighbor},
                                   (neighbor :> node) @@ parent,
                                   Append(queue, neighbor))
             ELSE enqueueNeighbors(neighbors, i + 1, node, visited, parent, queue)

\* The loop that walks the parent pointers back from end and puts start in
\* front.
RECURSIVE reconstructPath(_, _, _, _)
reconstructPath(parent, start, current, path) ==
    IF current # start
    THEN reconstructPath(parent, start,
                         IF current \in DOMAIN parent THEN parent[current]
                         ELSE ZeroNode,
                         <<current>> \o path)
    ELSE <<start>> \o path

\* A search that marks a node visited when it leaves the queue, not when it
\* enters, and lets a later node take over as its parent.
RECURSIVE enqueueNeighborsLate(_, _, _, _, _, _)
enqueueNeighborsLate(neighbors, i, node, visited, parent, queue) ==
    IF i > Len(neighbors)
    THEN [visited |-> visited, parent |-> parent, queue |-> queue]
    ELSE LET neighbor == neighbors[i]
         IN  IF neighbor \notin visited
             THEN enqueueNeighborsLate(neighbors, i + 1, node, visited,
                                       (neighbor :> node) @@ parent,
                                       Append(queue, neighbor))
             ELSE enqueueNeighborsLate(neighbors, i + 1, node, visited, parent, queue)

RECURSIVE shortestPathLoopLate(_, _, _, _, _, _)
shortestPathLoopLate(adj, start, end, queue, visited, parent) ==
    IF Len(queue) = 0 THEN <<<<>>, FALSE>>
    ELSE LET node == Head(queue)
         IN  IF node = end
             THEN <<reconstructPath(parent, start, end, <<>>), TRUE>>
             ELSE LET r == enqueueNeighborsLate(GetNeighbors(adj, node), 1, node,
                                                visited \cup {node}, parent,
                                                Tail(queue))
                  IN  shortestPathLoopLate(adj, start, end, r.queue, r.visited,
                                           r.parent)

\* The loop of ShortestPath over the queue, and the return after it.
RECURSIVE shortestPathLoop(_, _, _, _, _, _)
shortestPathLoop(adj, start, end, queue, visited, parent) ==
    IF Len(queue) = 0 THEN <<<<>>, FALSE>>
    ELSE LET node == Head(queue)
         IN  IF node = end
             THEN <<reconstructPath(parent, start, end, <<>>), TRUE>>
             ELSE LET r == enqueueNeighbors(GetNeighbors(adj, node), 1, node,
                                            visited, parent, Tail(queue))
                  IN  shortestPathLoop(adj, start, end, r.queue, r.visited, r.parent)

\* ShortestPath is (path, found).
ShortestPath(adj, start, end) ==
    IF ~HasNode(adj, start) \/ ~HasNode(adj, end) THEN <<<<>>, FALSE>>
    ELSE shortestPathLoop(adj, start, end, <<start>>, {start}, <<>>)

\* The loop of BFS over the neighbors from the i-th on; the result is
\* [visited, queue].
RECURSIVE bfsNeighbors(_, _, _, _)
bfsNeighbors(neighbors, i, visited, queue) ==
    IF i > Len(neighbors) THEN [visited |-> visited, queue |-> queue]
    ELSE IF neighbors[i] \notin visited
    THEN bfsNeighbors(neighbors, i + 1, visited \cup {neighbors[i]},
                      Append(queue, neighbors[i]))
    ELSE bfsNeighbors(neighbors, i + 1, visited, queue)

\* A BFS loop that takes the newest entry of the queue, not the oldest.
RECURSIVE bfsLoopLIFO(_, _, _, _)
bfsLoopLIFO(adj, queue, visited, result) ==
    IF Len(queue) = 0 THEN result
    ELSE LET node == queue[Len(queue)]
             r == bfsNeighbors(GetNeighbors(adj, node), 1, visited,
                               SubSeq(queue, 1, Len(queue) - 1))
         IN  bfsLoopLIFO(adj, r.queue, r.visited, Append(result, node))

\* The loop of BFS over the queue.
RECURSIVE bfsLoop(_, _, _, _)
bfsLoop(adj, queue, visited, result) ==
    IF Len(queue) = 0 THEN result
    ELSE LET node == Head(queue)
             r == bfsNeighbors(GetNeighbors(adj, node), 1, visited, Tail(queue))
         IN  bfsLoop(adj, r.queue, r.visited, Append(result, node))

BFS(adj, start) == bfsLoop(adj, <<start>>, {start}, <<>>)

\* dfsRecursive and its loop over the neighbors from the i-th on; the
\* result is [visited, result].
RECURSIVE dfsRecursive(_, _, _, _)
RECURSIVE dfsNeighbors(_, _, _, _, _)
dfsNeighbors(adj, neighbors, i, visited, result) ==
    IF i > Len(neighbors) THEN [visited |-> visited, result |-> result]
    ELSE IF neighbors[i] \notin visited
    THEN LET r == dfsRecursive(adj, neighbors[i], visited, result)
         IN  dfsNeighbors(adj, neighbors, i + 1, r.visited, r.result)
    ELSE dfsNeighbors(adj, neighbors, i + 1, visited, result)

dfsRecursive(adj, node, visited, result) ==
    dfsNeighbors(adj, GetNeighbors(adj, node), 1, visited \cup {node},
                 Append(result, node))

DFS(adj, start) == dfsRecursive(adj, start, {}, <<>>).result

\* A pushNeighbors that pushes the neighbors from the first up to the
\* i-th, so that the last is popped first.
RECURSIVE pushNeighborsForward(_, _, _, _)
pushNeighborsForward(neighbors, i, visited, stack) ==
    LET RECURSIVE from(_, _)
        from(k, s) ==
            IF k > i THEN s
            ELSE IF neighbors[k] \notin visited
            THEN from(k + 1, Append(s, neighbors[k]))
            ELSE from(k + 1, s)
    IN  from(1, stack)

\* The loop of DFSIterative that pushes the neighbors not yet visited, from
\* the i-th down to the first.
RECURSIVE pushNeighbors(_, _, _, _)
pushNeighbors(neighbors, i, visited, stack) ==
    IF i < 1 THEN stack
    ELSE IF neighbors[i] \notin visited
    THEN pushNeighbors(neighbors, i - 1, visited, Append(stack, neighbors[i]))
    ELSE pushNeighbors(neighbors, i - 1, visited, stack)

\* A DFSIterative loop that takes the oldest entry of the stack, not the
\* newest.
RECURSIVE dfsIterativeLoopFIFO(_, _, _, _)
dfsIterativeLoopFIFO(adj, stack, visited, result) ==
    IF Len(stack) = 0 THEN result
    ELSE LET node == Head(stack)
             rest == Tail(stack)
         IN  IF node \notin visited
             THEN LET neighbors == GetNeighbors(adj, node)
                  IN  dfsIterativeLoopFIFO(adj,
                          pushNeighbors(neighbors, Len(neighbors),
                                        visited \cup {node}, rest),
                          visited \cup {node}, Append(result, node))
             ELSE dfsIterativeLoopFIFO(adj, rest, visited, result)

\* The loop of DFSIterative over the stack.
RECURSIVE dfsIterativeLoop(_, _, _, _)
dfsIterativeLoop(adj, stack, visited, result) ==
    IF Len(stack) = 0 THEN result
    ELSE LET node == stack[Len(stack)]
             rest == SubSeq(stack, 1, Len(stack) - 1)
         IN  IF node \notin visited
             THEN LET neighbors == GetNeighbors(adj, node)
                  IN  dfsIterativeLoop(adj,
                          pushNeighbors(neighbors, Len(neighbors),
                                        visited \cup {node}, rest),
                          visited \cup {node}, Append(result, node))
             ELSE dfsIterativeLoop(adj, rest, visited, result)

DFSIterative(adj, start) == dfsIterativeLoop(adj, <<start>>, {}, <<>>)

\* color[node] of the map color, 0 for a node it has no entry for.
ColorOf(color, node) == IF node \in DOMAIN color THEN color[node] ELSE 0

\* The loop of isBipartiteBFS over the neighbors of node from the i-th on;
\* the result is [color, queue, ret], ret false when the loop has returned
\* false.
RECURSIVE bipartiteNeighbors(_, _, _, _, _)
bipartiteNeighbors(neighbors, i, node, color, queue) ==
    IF i > Len(neighbors) THEN [color |-> color, queue |-> queue, ret |-> TRUE]
    ELSE LET neighbor == neighbors[i]
         IN  IF ColorOf(color, neighbor) = 0
             THEN bipartiteNeighbors(neighbors, i + 1, node,
                                     (neighbor :> -ColorOf(color, node)) @@ color,
                                     Append(queue, neighbor))
             ELSE IF ColorOf(color, neighbor) = ColorOf(color, node)
             THEN [color |-> color, queue |-> queue, ret |-> FALSE]
             ELSE bipartiteNeighbors(neighbors, i + 1, node, color, queue)

\* The loop of isBipartiteBFS over the queue; the result is [color, ret].
RECURSIVE bipartiteLoop(_, _, _)
bipartiteLoop(adj, queue, color) ==
    IF Len(queue) = 0 THEN [color |-> color, ret |-> TRUE]
    ELSE LET node == Head(queue)
             r == bipartiteNeighbors(GetNeighbors(adj, node), 1, node, color,
                                     Tail(queue))
         IN  IF ~r.ret THEN [color |-> r.color, ret |-> FALSE]
             ELSE bipartiteLoop(adj, r.queue, r.color)

isBipartiteBFS(adj, start, color) ==
    bipartiteLoop(adj, <<start>>, (start :> 1) @@ color)

\* IsBipartite's loop over the nodes, in the order the map yields them.
RECURSIVE bipartiteNodes(_, _, _, _)
bipartiteNodes(adj, order, i, color) ==
    IF i > Len(order) THEN TRUE
    ELSE IF ColorOf(color, order[i]) = 0
    THEN LET r == isBipartiteBFS(adj, order[i], color)
         IN  IF ~r.ret THEN FALSE
             ELSE bipartiteNodes(adj, order, i + 1, r.color)
    ELSE bipartiteNodes(adj, order, i + 1, color)

IsEmpty(adj) == Cardinality(DOMAIN adj) = 0

IsBipartite(adj, order) ==
    IF IsEmpty(adj) THEN TRUE ELSE bipartiteNodes(adj, order, 1, <<>>)

\* findAllPaths and its loop over the neighbors from the i-th on; the
\* result is [visited, paths].  append(path, neighbor) may share path's
\* array, but a path is copied when it is recorded and an element is
\* overwritten only after the paths through it have been recorded.
RECURSIVE findAllPaths(_, _, _, _, _, _)

\* The loop of findAllPaths given up once a path has been recorded.
RECURSIVE allPathsNeighborsFirstOnly(_, _, _, _, _, _, _, _)
allPathsNeighborsFirstOnly(adj, current, end, neighbors, i, visited, path, paths) ==
    IF i > Len(neighbors) \/ paths # <<>>
    THEN [visited |-> visited \ {current}, paths |-> paths]
    ELSE IF neighbors[i] \notin visited
    THEN LET r == findAllPaths(adj, neighbors[i], end, visited,
                               Append(path, neighbors[i]), paths)
         IN  allPathsNeighborsFirstOnly(adj, current, end, neighbors, i + 1,
                                        r.visited, path, r.paths)
    ELSE allPathsNeighborsFirstOnly(adj, current, end, neighbors, i + 1, visited,
                                    path, paths)

RECURSIVE allPathsNeighbors(_, _, _, _, _, _, _, _)
allPathsNeighbors(adj, current, end, neighbors, i, visited, path, paths) ==
    IF i > Len(neighbors)
    THEN [visited |-> visited \ {current}, paths |-> paths]
    ELSE IF neighbors[i] \notin visited
    THEN LET r == findAllPaths(adj, neighbors[i], end, visited,
                               Append(path, neighbors[i]), paths)
         IN  allPathsNeighbors(adj, current, end, neighbors, i + 1, r.visited,
                               path, r.paths)
    ELSE allPathsNeighbors(adj, current, end, neighbors, i + 1, visited, path, paths)

findAllPaths(adj, current, end, visited, path, paths) ==
    IF current = end THEN [visited |-> visited, paths |-> Append(paths, path)]
    ELSE allPathsNeighbors(adj, current, end, GetNeighbors(adj, current), 1,
                           visited \cup {current}, path, paths)

AllPaths(adj, start, end) ==
    findAllPaths(adj, start, end, {}, <<start>>, <<>>).paths

\* The loop of ConnectedComponents over the nodes, in the order the map
\* yields them, from the i-th on.
RECURSIVE componentsNodes(_, _, _, _, _)
componentsNodes(adj, order, i, visited, components) ==
    IF i > Len(order) THEN components
    ELSE IF order[i] \notin visited
    THEN LET r == dfsRecursive(adj, order[i], visited, <<>>)
         IN  componentsNodes(adj, order, i + 1, r.visited,
                             Append(components, r.result))
    ELSE componentsNodes(adj, order, i + 1, visited, components)

ConnectedComponents(adj, order) == componentsNodes(adj, order, 1, {}, <<>>)

\* An Equals that does not compare the lengths of the neighbor lists.
EqualsNoLength(adj, dir, otherAdj, otherDir) ==
    IF dir # otherDir THEN FALSE
    ELSE IF Cardinality(DOMAIN adj) # Cardinality(DOMAIN otherAdj) THEN FALSE
    ELSE \A node \in DOMAIN adj :
             /\ node \in DOMAIN otherAdj
             /\ LET set1 == {adj[node][i] : i \in DOMAIN adj[node]}
                    set2 == {otherAdj[node][i] : i \in DOMAIN otherAdj[node]}
                IN  Cardinality(set1) = Cardinality(set2) /\ set1 \subseteq set2

\* Equals(other).  The loop over the nodes returns false at the first node
\* that differs and changes nothing, so its result does not depend on the
\* order; set1 and set2 are NewSetFromSlice's sets, compared as Set.Equals
\* compares them (same size, subset).
Equals(adj, dir, otherAdj, otherDir) ==
    IF dir # otherDir THEN FALSE
    ELSE IF Cardinality(DOMAIN adj) # Cardinality(DOMAIN otherAdj) THEN FALSE
    ELSE \A node \in DOMAIN adj :
             /\ node \in DOMAIN otherAdj
             /\ Len(adj[node]) = Len(otherAdj[node])
             /\ LET set1 == {adj[node][i] : i \in DOMAIN adj[node]}
                    set2 == {otherAdj[node][i] : i \in DOMAIN otherAdj[node]}
                IN  Cardinality(set1) = Cardinality(set2) /\ set1 \subseteq set2

GraphAddNode(node) ==
    /\ adjacency' = AddNode(adjacency, node)
    /\ graphCall' = [op |-> "AddNode", node |-> node, pre |-> adjacency]
    /\ UNCHANGED directed
    /\ UNCHANGED besideGraph

GraphAddEdge(from, to) ==
    /\ LET perEdge == IF directed THEN 1 ELSE 2
       IN  SumOfLengths(adjacency, DOMAIN adjacency) + perEdge <= perEdge * MaxEdges
    /\ adjacency' = AddEdge(adjacency, directed, from, to)
    /\ graphCall' = [op |-> "AddEdge", from |-> from, to |-> to, pre |-> adjacency]
    /\ UNCHANGED directed
    /\ UNCHANGED besideGraph

GraphRemoveEdge(from, to) ==
    /\ adjacency' = RemoveEdge(adjacency, directed, from, to)
    /\ graphCall' = [op |-> "RemoveEdge", from |-> from, to |-> to, pre |-> adjacency]
    /\ UNCHANGED directed
    /\ UNCHANGED besideGraph

GraphRemoveNode(node) ==
    /\ \E order \in IterationOrders(adjacency) :
           adjacency' = RemoveNode(adjacency, directed, order, node)
    /\ graphCall' = [op |-> "RemoveNode", node |-> node, pre |-> adjacency]
    /\ UNCHANGED directed
    /\ UNCHANGED besideGraph

GraphClear ==
    /\ adjacency' = NewGraph
    /\ graphCall' = [op |-> "Clear", pre |-> adjacency]
    /\ UNCHANGED directed
    /\ UNCHANGED besideGraph

\* The queries leave the graph alone; graphCall keeps the arguments and the
\* result.
GraphQuery(op, args, ret) ==
    /\ graphCall' = [op |-> op, args |-> args, ret |-> ret]
    /\ UNCHANGED <<adjacency, directed>>
    /\ UNCHANGED besideGraph

GraphHasCycle ==
    \E order \in IterationOrders(adjacency) :
        GraphQuery("HasCycle", <<>>, HasCycle(adjacency, order))

\* TopologicalSort's own loop runs, and its order counts, only when the
\* graph is directed and HasCycle has returned false.
GraphTopologicalSort ==
    \E cycleOrder \in IterationOrders(adjacency) :
      \E sortOrder \in IF directed /\ ~HasCycle(adjacency, cycleOrder)
                       THEN IterationOrders(adjacency)
                       ELSE {cycleOrder} :
        GraphQuery("TopologicalSort", <<>>,
                   TopologicalSort(adjacency, directed, cycleOrder, sortOrder))

GraphShortestPath(start, end) ==
    GraphQuery("ShortestPath", <<start, end>>, ShortestPath(adjacency, start, end))

GraphBFS(start) == GraphQuery("BFS", <<start>>, BFS(adjacency, start))

GraphDFS(start) == GraphQuery("DFS", <<start>>, DFS(adjacency, start))

GraphDFSIterative(start) ==
    GraphQuery("DFSIterative", <<start>>, DFSIterative(adjacency, start))

GraphIsBipartite ==
    \E order \in IterationOrders(adjacency) :
        GraphQuery("IsBipartite", <<>>, IsBipartite(adjacency, order))

GraphAllPaths(start, end) ==
    GraphQuery("AllPaths", <<start, end>>, AllPaths(adjacency, start, end))

GraphConnectedComponents ==
    \E order \in IterationOrders(adjacency) :
        GraphQuery("ConnectedComponents", <<>>, ConnectedComponents(adjacency, order))

\* Equals(other), other given as <<adjacency, directed>>.
GraphEquals(other) ==
    GraphQuery("Equals", other, Equals(adjacency, directed, other[1], other[2]))

\* The inner loop of FilterNodes over the neighbors of from, from the i-th
\* on: AddEdge(from, to) on the result for every neighbor the result has.
RECURSIVE filterNeighbors(_, _, _, _, _)
filterNeighbors(result, dir, from, neighbors, i) ==
    IF i > Len(neighbors) THEN result
    ELSE IF neighbors[i] \in DOMAIN result
    THEN filterNeighbors(AddEdge(result, dir, from, neighbors[i]), dir, from,
                         neighbors, i + 1)
    ELSE filterNeighbors(result, dir, from, neighbors, i + 1)

\* The second loop of FilterNodes over the nodes, in the order the map
\* yields them.
RECURSIVE filterEdges(_, _, _, _, _)
filterEdges(result, dir, adj, order, i) ==
    IF i > Len(order) THEN result
    ELSE IF order[i] \in DOMAIN result
    THEN filterEdges(filterNeighbors(result, dir, order[i], adj[order[i]], 1),
                     dir, adj, order, i + 1)
    ELSE filterEdges(result, dir, adj, order, i + 1)

\* FilterNodes(predicate), the predicate given as the set of the values it
\* holds for.  The first loop adds the nodes kept, in any order.
FilterNodes(adj, dir, kept, order) ==
    filterEdges([n \in DOMAIN adj \cap kept |-> <<>>], dir, adj, order, 1)

\* Subgraph(nodes): the predicate is membership in NewSetFromSlice(nodes).
Subgraph(adj, dir, nodes, order) ==
    FilterNodes(adj, dir, {nodes[i] : i \in 1..Len(nodes)}, order)

\* FilterNodes and Subgraph return a graph of the kind of this one; the
\* call record keeps its adjacency lists and what the predicate holds for.
GraphFilterNodes(kept) ==
    \E order \in IterationOrders(adjacency) :
        GraphQuery("FilterNodes", kept, FilterNodes(adjacency, directed, kept, order))

GraphSubgraph(nodes) ==
    \E order \in IterationOrders(adjacency) :
        GraphQuery("Subgraph", {nodes[i] : i \in 1..Len(nodes)},
                   Subgraph(adjacency, directed, nodes, order))

\* IsConnected(), its ConnectedComponents() call going over the nodes in
\* the order given.
IsConnected(adj, order) ==
    IF Cardinality(DOMAIN adj) = 0 THEN TRUE
    ELSE Len(ConnectedComponents(adj, order)) = 1

GraphIsConnected ==
    \E order \in IterationOrders(adjacency) :
        GraphQuery("IsConnected", <<>>, IsConnected(adjacency, order))

\* NewGraph(directed).
GraphInitOf(dir) ==
    /\ adjacency = NewGraph
    /\ directed = dir
    /\ graphCall = NoCall

\* Either kind of graph may be constructed.
GraphInit == \E dir \in BOOLEAN : GraphInitOf(dir)

\* Calls that add nodes and add or remove edges.
GraphEdgeNext ==
    \/ \E node \in Nodes : GraphAddNode(node)
    \/ \E from, to \in Nodes : GraphAddEdge(from, to)
    \/ \E from, to \in Nodes : GraphRemoveEdge(from, to)

GraphNext ==
    \/ \E node \in Nodes : GraphAddNode(node)
    \/ \E from, to \in Nodes : GraphAddEdge(from, to)
    \/ \E from, to \in Nodes : GraphRemoveEdge(from, to)
    \/ \E node \in Nodes : GraphRemoveNode(node)
    \/ GraphClear

(***************************************************************************)
(* Deque (src/stl/trie_test.go, from line 337), instantiated at T = int.   *)
(* A Deque is [data, front, back, size]; data[i] of the code is            *)
(* data[i + 1] here.  A method's result is [d, ret, panic]: the Deque      *)
(* after the call, or at the point where an index expression or a          *)
(* division panicked.                                                      *)
(***************************************************************************)
\* make([]T, n): n zero values.
MakeSlice(n) == [i \in 1..n |-> ZeroT]

NewDeque(initialCapacity) ==
    [data |-> MakeSlice(IF initialCapacity <= 0 THEN 16 ELSE initialCapacity),
     front |-> 0, back |-> 0, size |-> 0]

\* The loop that copies the elements to the front of a new array of
\* newCapacity zero values (ensureCapacity, Reserve, ShrinkToFit).
CopyToNew(d, newCapacity) ==
    [data |-> [i \in 1..newCapacity |->
                  IF i <= d.size
                  THEN d.data[((d.front + i - 1) % Len(d.data)) + 1]
                  ELSE ZeroT],
     front |-> 0, back |-> d.size, size |-> d.size]

ensureCapacity(d) ==
    IF d.size = Len(d.data) THEN CopyToNew(d, Len(d.data) * 2) ELSE d

Done(d, ret) == [d |-> d, ret |-> ret, panic |-> FALSE]

Panicked(d) == [d |-> d, ret |-> Panic, panic |-> TRUE]

\* PushFront panics in the modulo when the array has no slot.
PushFront(d, element) ==
    LET e == ensureCapacity(d)
        front == (e.front - 1 + Len(e.data)) % Len(e.data)
    IN  IF Len(e.data) = 0 THEN Panicked(e)
        ELSE Done([e EXCEPT !.front = front, !.data[front + 1] = element,
                            !.size = e.size + 1], TRUE)

\* A PushBack that leaves back where it was.
PushBackNoAdvance(d, element) ==
    LET e == ensureCapacity(d)
    IN  IF e.back >= Len(e.data) THEN Panicked(e)
        ELSE Done([e EXCEPT !.data[e.back + 1] = element, !.size = e.size + 1], TRUE)

\* PushBack panics in data[back] when back is no index of the array.
PushBack(d, element) ==
    LET e == ensureCapacity(d)
    IN  IF e.back >= Len(e.data) THEN Panicked(e)
        ELSE Done([e EXCEPT !.data[e.back + 1] = element,
                            !.back = (e.back + 1) % Len(e.data),
                            !.size = e.size + 1], TRUE)

PopFront(d) ==
    IF d.size = 0 THEN Done(d, <<ZeroT, FALSE>>)
    ELSE Done([d EXCEPT !.front = (d.front + 1) % Len(d.data), !.size = d.size - 1],
              <<d.data[d.front + 1], TRUE>>)

PopBack(d) ==
    IF d.size = 0 THEN Done(d, <<ZeroT, FALSE>>)
    ELSE LET back == (d.back - 1 + Len(d.data)) % Len(d.data)
         IN  Done([d EXCEPT !.back = back, !.size = d.size - 1],
                  <<d.data[back + 1], TRUE>>)

Front(d) ==
    IF d.size = 0 THEN <<ZeroT, FALSE>> ELSE <<d.data[d.front + 1], TRUE>>

Back(d) ==
    IF d.size = 0 THEN <<ZeroT, FALSE>>
    ELSE <<d.data[((d.back - 1 + Len(d.data)) % Len(d.data)) + 1], TRUE>>

ToSlice(d) ==
    [i \in 1..d.size |-> d.data[((d.front + i - 1) % Len(d.data)) + 1]]

\* The loop of Insert that moves the elements from the last down to the
\* one at index one slot up: for i := d.size; i > index; i--.
RECURSIVE shiftUp(_, _, _, _)
shiftUp(data, front, i, index) ==
    IF i > index
    THEN LET srcIndex == (front + i - 1) % Len(data)
             dstIndex == (front + i) % Len(data)
         IN  shiftUp([data EXCEPT ![dstIndex + 1] = data[srcIndex + 1]], front,
                     i - 1, index)
    ELSE data

Insert(d, index, element) ==
    IF index < 0 \/ index > d.size THEN Done(d, FALSE)
    ELSE IF index = 0 THEN PushFront(d, element)
    ELSE IF index = d.size THEN PushBack(d, element)
    ELSE LET e == ensureCapacity(d)
             shifted == shiftUp(e.data, e.front, e.size, index)
             insertIndex == (e.front + index) % Len(e.data)
         IN  Done([e EXCEPT !.data = [shifted EXCEPT ![insertIndex + 1] = element],
                            !.back = (e.back + 1) % Len(e.data),
                            !.size = e.size + 1], TRUE)

\* The loop of Remove that moves the elements after index one slot down:
\* for i := index; i < d.size-1; i++.
RECURSIVE shiftDown(_, _, _, _)
shiftDown(data, front, i, size) ==
    IF i < size - 1
    THEN LET srcIndex == (front + i + 1) % Len(data)
             dstIndex == (front + i) % Len(data)
         IN  shiftDown([data EXCEPT ![dstIndex + 1] = data[srcIndex + 1]], front,
                       i + 1, size)
    ELSE data

Remove(d, index) ==
    IF index < 0 \/ index >= d.size THEN Done(d, <<ZeroT, FALSE>>)
    ELSE IF index = 0 THEN PopFront(d)
    ELSE IF index = d.size - 1 THEN PopBack(d)
    ELSE LET removeIndex == (d.front + index) % Len(d.data)
         IN  Done([d EXCEPT !.data = shiftDown(d.data, d.front, index, d.size),
                            !.back = (d.back - 1 + Len(d.data)) % Len(d.data),
                            !.size = d.size - 1],
                  <<d.data[removeIndex + 1], TRUE>>)

DequeClear(d) ==
    [data |-> MakeSlice(Len(d.data)), front |-> 0, back |-> 0, size |-> 0]

Reserve(d, capacity) ==
    IF capacity > Len(d.data) THEN CopyToNew(d, capacity) ELSE d

ShrinkToFit(d) ==
    IF d.size < Len(d.data) THEN CopyToNew(d, d.size) ELSE d

\* The abstract list after Insert(index, element) and Remove(index).
ListInsert(list, index, element) ==
    IF index < 0 \/ index > Len(list) THEN list
    ELSE SubSeq(list, 1, index) \o <<element>> \o SubSeq(list, index + 1, Len(list))

ListRemove(list, index) ==
    IF index < 0 \/ index >= Len(list) THEN list
    ELSE SubSeq(list, 1, index) \o SubSeq(list, index + 2, Len(list))

\* A panic ends the run of calls on the Deque.
DequeRunning == IF dequeCall.op = "none" THEN TRUE ELSE ~dequeCall.panic

\* A call that changes the Deque: r is the method's result, list the
\* abstract list after the call.
DequeUpdate(op, args, r, list) ==
    /\ DequeRunning
    /\ deque' = r.d
    /\ dequeList' = list
    /\ dequeCall' = [op |-> op, args |-> args, ret |-> r.ret, panic |-> r.panic,
                     pre |-> deque, preList |-> dequeList]
    /\ UNCHANGED besideDeque

\* Elements are pushed while the Deque holds fewer than MaxDeque.
DequePushFront(element) ==
    /\ deque.size < MaxDeque
    /\ DequeUpdate("PushFront", <<element>>, PushFront(deque, element),
                   <<element>> \o dequeList)

DequePushBack(element) ==
    /\ deque.size < MaxDeque
    /\ DequeUpdate("PushBack", <<element>>, PushBack(deque, element),
                   Append(dequeList, element))

DequePopFront ==
    DequeUpdate("PopFront", <<>>, PopFront(deque), ListRemove(dequeList, 0))

DequePopBack ==
    DequeUpdate("PopBack", <<>>, PopBack(deque),
                ListRemove(dequeList, Len(dequeList) - 1))

DequeFront == DequeUpdate("Front", <<>>, Done(deque, Front(deque)), dequeList)

DequeBack == DequeUpdate("Back", <<>>, Done(deque, Back(deque)), dequeList)

DequeInsert(index, element) ==
    /\ deque.size < MaxDeque
    /\ DequeUpdate("Insert", <<index, element>>, Insert(deque, index, element),
                   ListInsert(dequeList, index, element))

DequeRemove(index) ==
    DequeUpdate("Remove", <<index>>, Remove(deque, index), ListRemove(dequeList, index))

DequeClearCall == DequeUpdate("Clear", <<>>, Done(DequeClear(deque), TRUE), <<>>)

DequeReserve(capacity) ==
    DequeUpdate("Reserve", <<capacity>>, Done(Reserve(deque, capacity), TRUE), dequeList)

DequeShrinkToFit ==
    DequeUpdate("ShrinkToFit", <<>>, Done(ShrinkToFit(deque), TRUE), dequeList)

\* NewDeque(initialCapacity).
DequeInitOf(initialCapacity) ==
    /\ deque = NewDeque(initialCapacity)
    /\ dequeList = <<>>
    /\ dequeCall = NoCall

DequeInit == \E initialCapacity \in DequeCapacities : DequeInitOf(initialCapacity)

\* The calls C31 speaks of.
DequeListNext ==
    \/ \E element \in DequeValues : DequePushFront(element)
    \/ \E element \in DequeValues : DequePushBack(element)
    \/ DequePopFront
    \/ DequePopBack
    \/ DequeFront
    \/ DequeBack
    \/ \E index \in DequeIndices, element \in DequeValues : DequeInsert(index, element)
    \/ \E index \in DequeIndices : DequeRemove(index)

DequeNext ==
    \/ DequeListNext
    \/ DequeClearCall
    \/ \E capacity \in DequeCapacities : DequeReserve(capacity)
    \/ DequeShrinkToFit

(***************************************************************************)
(* PriorityQueue (src/unnamed/part_004), instantiated at T = int with the  *)
(* comparator a < b.  data[i] of the code is data[i + 1] here.             *)
(***************************************************************************)
\* The comparator passed to NewPriorityQueue.
pqLess(a, b) == a < b

\* data[i], data[j] = data[j], data[i].
SwapAt(data, i, j) == [data EXCEPT ![i + 1] = data[j + 1], ![j + 1] = data[i + 1]]

\* An up that stops below the root's children.
RECURSIVE upShort(_, _)
upShort(data, index) ==
    IF index > 2
    THEN LET parent == (index - 1) \div 2
         IN  IF ~pqLess(data[index + 1], data[parent + 1]) THEN data
             ELSE upShort(SwapAt(data, index, parent), parent)
    ELSE data

RECURSIVE up(_, _)
up(data, index) ==
    IF index > 0
    THEN LET parent == (index - 1) \div 2
         IN  IF ~pqLess(data[index + 1], data[parent + 1]) THEN data
             ELSE up(SwapAt(data, index, parent), parent)
    ELSE data

RECURSIVE down(_, _)
down(data, index) ==
    LET left == 2 * index + 1
        right == 2 * index + 2
        afterLeft == IF left < Len(data) /\ pqLess(data[left + 1], data[index + 1])
                     THEN left ELSE index
        smallest == IF right < Len(data) /\ pqLess(data[right + 1], data[afterLeft + 1])
                    THEN right ELSE afterLeft
    IN  IF smallest = index THEN data
        ELSE down(SwapAt(data, index, smallest), smallest)

Enqueue(data, item) == up(Append(data, item), Len(data))

\* Dequeue: [data, ret].
Dequeue(data) ==
    IF Len(data) = 0 THEN [data |-> data, ret |-> <<ZeroT, FALSE>>]
    ELSE LET moved == SubSeq([data EXCEPT ![1] = data[Len(data)]], 1, Len(data) - 1)
         IN  [data |-> IF Len(moved) > 0 THEN down(moved, 0) ELSE moved,
              ret |-> <<data[1], TRUE>>]

Peek(data) == IF Len(data) = 0 THEN <<ZeroT, FALSE>> ELSE <<data[1], TRUE>>

\* Elements are enqueued while the queue holds fewer than MaxQueue.
PQEnqueue(item) ==
    /\ Len(pqData) < MaxQueue
    /\ pqData' = Enqueue(pqData, item)
    /\ pqCall' = [op |-> "Enqueue", item |-> item, pre |-> pqData]
    /\ UNCHANGED besidePriorityQueue

PQDequeue ==
    /\ pqData' = Dequeue(pqData).data
    /\ pqCall' = [op |-> "Dequeue", ret |-> Dequeue(pqData).ret, pre |-> pqData]
    /\ UNCHANGED besidePriorityQueue

PQPeek ==
    /\ UNCHANGED pqData
    /\ pqCall' = [op |-> "Peek", ret |-> Peek(pqData), pre |-> pqData]
    /\ UNCHANGED besidePriorityQueue

\* NewPriorityQueue(less).
PQInit ==
    /\ pqData = <<>>
    /\ pqCall = NoCall

PQNext ==
    \/ \E item \in PQValues : PQEnqueue(item)
    \/ PQDequeue
    \/ PQPeek

(***************************************************************************)
(* Properties of the BST.                                                  *)
(***************************************************************************)
\* The set of the elements of a sequence.
Elems(seq) == {seq[i] : i \in 1..Len(seq)}

\* seq is ascending under the comparator, no two elements equal.
StrictlyAscending(seq) == \A i \in 1..(Len(seq) - 1) : Less(seq[i], seq[i + 1])

\* C1: after any sequence of Insert, Delete and Clear calls (Inserts of
\* values already present included) InOrder() is sorted ascending under the
\* comparator with no two equal elements, and its length is the Size field.
C1_InOrderSortedAndSized ==
    /\ StrictlyAscending(InOrder(bstRoot))
    /\ Len(InOrder(bstRoot)) = bstSize

\* C1's case: an Insert of a value already present in a tree of three or
\* more elements has just returned.
C1_Witness ==
    /\ bstCall.op = "Insert"
    /\ bstCall.arg \in Elems(InOrder(bstCall.preRoot))
    /\ bstCall.preSize >= 3

\* C2: for every stored value v, Delete(v) returns true, afterwards
\* Search(v) is false, Size is one less, and every other stored value is
\* still found by Search.
C2_DeleteStored ==
    (bstCall.op = "Delete" /\ bstCall.arg \in Elems(InOrder(bstCall.preRoot)))
        => /\ bstCall.ret = TRUE
           /\ ~Search(bstRoot, bstCall.arg)
           /\ bstSize = bstCall.preSize - 1
           /\ \A w \in Elems(InOrder(bstCall.preRoot)) \ {bstCall.arg} :
                  Search(bstRoot, w)

\* C2's case: the deleted value sat in the root, the root had two children
\* and the in-order successor was not the root's right child itself.
C2_Witness ==
    /\ bstCall.op = "Delete"
    /\ bstCall.preRoot # Nil
    /\ bstCall.preRoot.Value = bstCall.arg
    /\ bstCall.preRoot.Left # Nil
    /\ bstCall.preRoot.Right # Nil
    /\ bstCall.preRoot.Right.Left # Nil
    /\ bstCall.ret = TRUE

\* C30: Delete(v) of a value v that is not stored returns false and leaves
\* Size, InOrder() and the shape of the tree as they were.
C30_DeleteAbsent ==
    (bstCall.op = "Delete" /\ bstCall.arg \notin Elems(InOrder(bstCall.preRoot)))
        => /\ bstCall.ret = FALSE
           /\ bstSize = bstCall.preSize
           /\ InOrder(bstRoot) = InOrder(bstCall.preRoot)
           /\ bstRoot = bstCall.preRoot

\* C30's case: Delete was called with a value that is not stored but lies
\* between two stored values of a tree of three or more nodes.
C30_Witness ==
    /\ bstCall.op = "Delete"
    /\ bstCall.arg \notin Elems(InOrder(bstCall.preRoot))
    /\ bstCall.preSize >= 3
    /\ \E a, b \in Elems(InOrder(bstCall.preRoot)) : a < bstCall.arg /\ bstCall.arg < b
    /\ bstCall.ret = FALSE

\* C9: Clone() is a structural copy: the clone has the shape of the
\* original, so its PreOrder(), LevelOrder() and Height() are the original's.
C9_CloneSameShape ==
    bstCall.op = "Clone" =>
        /\ PreOrder(bstCall.ret.Root) = PreOrder(bstRoot)
        /\ LevelOrder(bstCall.ret.Root) = LevelOrder(bstRoot)
        /\ Height(bstCall.ret.Root) = Height(bstRoot)

(***************************************************************************)
(* Properties of the TreeMap.                                              *)
(***************************************************************************)
\* What the abstract map answers to get(key).
AbsGet(abs, key) ==
    IF key \in DOMAIN abs THEN <<abs[key], TRUE>> ELSE <<ZeroV, FALSE>>

\* The tree with the values taken out of the nodes: its keys and its shape.
RECURSIVE Shape(_)
Shape(node) ==
    IF node = Nil THEN Nil
    ELSE [Key |-> node.Key, Left |-> Shape(node.Left), Right |-> Shape(node.Right)]

\* C3: through any sequence of Put and Remove calls the TreeMap agrees with
\* the abstract map run beside it: Get(k) answers as the abstract map does
\* for every key, Remove(k) returns true exactly when k was present, Size()
\* is the number of keys and Keys() lists them in strictly ascending order.
C3_RefinesAbstractMap ==
    /\ \A k \in KeyDomain : Get(tmRoot, k) = AbsGet(tmAbs, k)
    /\ tmSize = Cardinality(DOMAIN tmAbs)
    /\ StrictlyAscending(Keys(tmRoot))
    /\ Elems(Keys(tmRoot)) = DOMAIN tmAbs
    /\ tmCall.op = "Remove" => (tmCall.ret = (tmCall.key \in DOMAIN tmCall.pre.preAbs))

\* C3's case: a Remove has just taken out a key whose node had two children,
\* the successor lay deeper than the node's right child and carried another
\* value than the removed key.
C3_Witness ==
    /\ tmCall.op = "Remove"
    /\ tmCall.ret = TRUE
    /\ LET node == getNode(tmCall.pre.preRoot, tmCall.key)
       IN  /\ node.Left # Nil
           /\ node.Right # Nil
           /\ node.Right.Left # Nil
           /\ minNode(node.Right).Value # node.Value

\* C10: Put(k, v) on a key already present makes Get(k) return (v, true) and
\* leaves Size(), Keys(), the tree shape and every other key's value as they
\* were; Put on an absent key increases Size() by exactly 1.
C10_PutFrame ==
    tmCall.op = "Put" =>
        IF ContainsKey(tmCall.pre.preRoot, tmCall.key)
        THEN /\ Get(tmRoot, tmCall.key) = <<tmCall.value, TRUE>>
             /\ tmSize = tmCall.pre.preSize
             /\ Keys(tmRoot) = Keys(tmCall.pre.preRoot)
             /\ Shape(tmRoot) = Shape(tmCall.pre.preRoot)
             /\ \A k \in KeyDomain \ {tmCall.key} :
                    Get(tmRoot, k) = Get(tmCall.pre.preRoot, k)
        ELSE tmSize = tmCall.pre.preSize + 1

\* C10's case: a Put has just overwritten, with another value, the value of
\* a key that sits below the root of a map of three or more keys.
C10_Witness ==
    /\ tmCall.op = "Put"
    /\ ContainsKey(tmCall.pre.preRoot, tmCall.key)
    /\ Get(tmCall.pre.preRoot, tmCall.key)[1] # tmCall.value
    /\ tmCall.pre.preRoot.Key # tmCall.key
    /\ tmCall.pre.preSize >= 3

(***************************************************************************)
(* Properties of the Trie.                                                 *)
(***************************************************************************)
\* C4: after any sequence of Insert / InsertWithValue calls Search(w) is
\* true for every inserted word w, GetAllWords() holds each distinct
\* inserted word exactly once and nothing else, and Size() is the number of
\* distinct inserted words.
C4_InsertedWordsStored ==
    /\ \A w \in trieWords : TrieSearch(trieNodes, w)
    /\ GetAllWords(trieNodes) = SetToBag(trieWords)
    /\ trieCall.op = "GetAllWords" => trieCall.ret = SetToBag(trieWords)
    /\ trieSize = Cardinality(trieWords)

\* C4's case: a word already stored has just been inserted again, into a
\* trie that holds a word, its proper prefix and a word with a two-byte
\* character.
C4_Witness ==
    /\ trieCall.op \in {"Insert", "InsertWithValue"}
    /\ trieCall.word \in trieCall.pre.words
    /\ {<<97>>, <<97, 98>>, <<233>>} \subseteq trieWords

\* C5: for a stored word w, Delete(w) makes Search(w) false, decreases
\* Size() by exactly 1 and leaves every other stored word searchable.
C5_DeleteStoredWord ==
    (trieCall.op = "Delete" /\ TrieSearch(trieCall.pre.nodes, trieCall.word))
        => /\ ~TrieSearch(trieNodes, trieCall.word)
           /\ trieSize = trieCall.pre.size - 1
           /\ \A w \in Words \ {trieCall.word} :
                  TrieSearch(trieCall.pre.nodes, w) => TrieSearch(trieNodes, w)

\* C8: Delete(word) returns false when word is not stored, and true when
\* word was stored and the call has removed it.
C8_DeleteReturnValue ==
    trieCall.op = "Delete" =>
        /\ ~TrieSearch(trieCall.pre.nodes, trieCall.word) => trieCall.ret = FALSE
        /\ (TrieSearch(trieCall.pre.nodes, trieCall.word)
               /\ ~TrieSearch(trieNodes, trieCall.word)) => trieCall.ret = TRUE

(***************************************************************************)
(* Properties of the Graph.                                                *)
(***************************************************************************)
\* The number of entries equal to x in an adjacency list.
Count(neighbors, x) == Cardinality({i \in 1..Len(neighbors) : neighbors[i] = x})

\* C6: in an undirected graph HasEdge(u, v) = HasEdge(v, u) for all nodes u
\* and v after any sequence of AddEdge and RemoveEdge calls, parallel edges
\* and self-loops included.
C6_UndirectedSymmetric ==
    ~directed =>
        \A u, v \in Nodes : HasEdge(adjacency, u, v) = HasEdge(adjacency, v, u)

\* C6's case: in an undirected graph that also has a self-loop, RemoveEdge
\* has just removed one of two parallel edges between two different nodes.
C6_Witness ==
    /\ ~directed
    /\ graphCall.op = "RemoveEdge"
    /\ graphCall.from # graphCall.to
    /\ graphCall.from \in DOMAIN graphCall.pre
    /\ Count(graphCall.pre[graphCall.from], graphCall.to) = 2
    /\ Count(adjacency[graphCall.from], graphCall.to) = 1
    /\ \E u \in Nodes : HasEdge(adjacency, u, u)

\* C7: after RemoveNode(id), HasNode(id) is false and HasEdge(u, id) is
\* false for every node u.
C7_RemoveNodeLeavesNoEdge ==
    graphCall.op = "RemoveNode" =>
        /\ ~HasNode(adjacency, graphCall.node)
        /\ \A u \in Nodes : ~HasEdge(adjacency, u, graphCall.node)

(***************************************************************************)
(* Properties of the order queries of the BST and the TreeMap.  The two    *)
(* containers share no state, so a behaviour that calls both is an         *)
(* interleaving of one behaviour of each: the specifications of the        *)
(* queries exercise one container per behaviour.                           *)
(***************************************************************************)
BSTAlone == tmCall.op = "none"

TreeMapAlone == bstCall.op = "none"

RankSelectNext ==
    \/ \E value \in Elements : BSTAlone /\ BSTInsert(value)
    \/ \E value \in Elements : BSTAlone /\ BSTDelete(value)
    \/ \E value \in Elements : BSTAlone /\ BSTRank(value)
    \/ \E rank \in BSTRanks : BSTAlone /\ BSTSelect(rank)
    \/ \E key \in KeyDomain, value \in TMValues : TreeMapAlone /\ TMPut(key, value)
    \/ \E key \in KeyDomain : TreeMapAlone /\ TMRemove(key)
    \/ \E key \in KeyDomain : TreeMapAlone /\ TMRankCall(key)
    \/ \E rank \in TMRanks : TreeMapAlone /\ TMSelectCall(rank)

\* C11: in a BST or TreeMap reached by Inserts and Deletes (Puts and
\* Removes), Select(r) for r in [0, size) finds an element whose Rank is r,
\* Select(r) for any other r returns found = false and does not fail, and
\* Select(Rank(v)) finds v for every stored v.
C11_RankSelectInverse ==
    /\ bstCall.op = "Select" =>
          IF bstCall.arg \in 0..(bstSize - 1)
          THEN /\ Len(bstCall.ret) = 2
               /\ bstCall.ret[2] = TRUE
               /\ Rank(bstRoot, bstCall.ret[1]) = bstCall.arg
          ELSE bstCall.ret = <<ZeroT, FALSE>>
    /\ (bstCall.op = "Rank" /\ bstCall.arg \in Elems(InOrder(bstRoot))) =>
          Select(bstRoot, bstSize, bstCall.ret) = <<bstCall.arg, TRUE>>
    /\ tmCall.op = "Select" =>
          IF tmCall.key \in 0..(tmSize - 1)
          THEN /\ Len(tmCall.ret) = 3
               /\ tmCall.ret[3] = TRUE
               /\ TMRank(tmRoot, tmCall.ret[1]) = tmCall.key
          ELSE tmCall.ret = <<ZeroK, ZeroV, FALSE>>
    /\ (tmCall.op = "Rank" /\ tmCall.key \in Elems(Keys(tmRoot))) =>
          TMSelect(tmRoot, tmSize, tmCall.ret)
              = <<tmCall.key, Get(tmRoot, tmCall.key)[1], TRUE>>

\* C11's case: Select(2) has returned on a BST of four or more elements
\* whose root has one element to its left, so the search went right with
\* the rank reduced.
C11_Witness ==
    /\ bstCall.op = "Select"
    /\ bstCall.arg = 2
    /\ bstSize >= 4
    /\ sizeOf(bstRoot.Left) = 1
    /\ bstCall.ret[2] = TRUE

FloorCeilingNext ==
    \/ \E value \in Elements : BSTAlone /\ BSTInsert(value)
    \/ \E value \in Elements : BSTAlone /\ BSTDelete(value)
    \/ \E value \in Elements : BSTAlone /\ BSTFloor(value)
    \/ \E value \in Elements : BSTAlone /\ BSTCeiling(value)
    \/ \E key \in KeyDomain, value \in TMValues : TreeMapAlone /\ TMPut(key, value)
    \/ \E key \in KeyDomain : TreeMapAlone /\ TMRemove(key)
    \/ \E key \in KeyDomain : TreeMapAlone /\ TMFloorCall(key)
    \/ \E key \in KeyDomain : TreeMapAlone /\ TMCeilingCall(key)

\* x is the largest element of set that is not greater than v.
IsFloor(x, set, v) == x \in set /\ x <= v /\ \A y \in set : y <= v => y <= x

\* x is the smallest element of set that is not less than v.
IsCeiling(x, set, v) == x \in set /\ x >= v /\ \A y \in set : y >= v => x <= y

\* C12: Floor(v) returns the largest stored element not greater than v and
\* Ceiling(v) the smallest stored element not less than v, whether or not v
\* is stored; found is false exactly when there is no such element, the
\* empty tree included.  The same holds of the keys of a TreeMap.
C12_FloorCeiling ==
    /\ bstCall.op = "Floor" =>
          LET stored == Elems(InOrder(bstRoot))
          IN  IF \E x \in stored : x <= bstCall.arg
              THEN /\ bstCall.ret[2] = TRUE
                   /\ IsFloor(bstCall.ret[1], stored, bstCall.arg)
              ELSE bstCall.ret[2] = FALSE
    /\ bstCall.op = "Ceiling" =>
          LET stored == Elems(InOrder(bstRoot))
          IN  IF \E x \in stored : x >= bstCall.arg
              THEN /\ bstCall.ret[2] = TRUE
                   /\ IsCeiling(bstCall.ret[1], stored, bstCall.arg)
              ELSE bstCall.ret[2] = FALSE
    /\ tmCall.op = "Floor" =>
          LET stored == Elems(Keys(tmRoot))
          IN  IF \E x \in stored : x <= tmCall.key
              THEN /\ tmCall.ret[3] = TRUE
                   /\ IsFloor(tmCall.ret[1], stored, tmCall.key)
              ELSE tmCall.ret[3] = FALSE
    /\ tmCall.op = "Ceiling" =>
          LET stored == Elems(Keys(tmRoot))
          IN  IF \E x \in stored : x >= tmCall.key
              THEN /\ tmCall.ret[3] = TRUE
                   /\ IsCeiling(tmCall.ret[1], stored, tmCall.key)
              ELSE tmCall.ret[3] = FALSE

\* C12's case: Floor(v) has returned for a v that is not stored and is
\* greater than the root, and the floor is the root itself because nothing
\* in the non-empty right subtree is small enough.
C12_Witness ==
    /\ bstCall.op = "Floor"
    /\ bstCall.arg \notin Elems(InOrder(bstRoot))
    /\ bstRoot # Nil
    /\ bstRoot.Right # Nil
    /\ bstCall.ret = <<bstRoot.Value, TRUE>>

NeighbourNext ==
    \/ \E value \in Elements : BSTAlone /\ BSTInsert(value)
    \/ \E value \in Elements : BSTAlone /\ BSTDelete(value)
    \/ \E value \in Elements : BSTAlone /\ BSTSuccessor(value)
    \/ \E value \in Elements : BSTAlone /\ BSTPredecessor(value)
    \/ \E key \in KeyDomain, value \in TMValues : TreeMapAlone /\ TMPut(key, value)
    \/ \E key \in KeyDomain : TreeMapAlone /\ TMRemove(key)
    \/ \E key \in KeyDomain : TreeMapAlone /\ TMLowerCall(key)
    \/ \E key \in KeyDomain : TreeMapAlone /\ TMHigherCall(key)

\* found is true and x is the smallest element of set strictly greater
\* than v, or found is false and set has no element greater than v.
IsSuccessor(x, found, set, v) ==
    IF \E y \in set : y > v
    THEN found = TRUE /\ IsCeiling(x, set, v + 1)
    ELSE found = FALSE

\* found is true and x is the largest element of set strictly less than v,
\* or found is false and set has no element less than v.
IsPredecessor(x, found, set, v) ==
    IF \E y \in set : y < v
    THEN found = TRUE /\ IsFloor(x, set, v - 1)
    ELSE found = FALSE

\* C13: Successor(v) returns the smallest stored element strictly greater
\* than v and Predecessor(v) the largest strictly less than v, whether or
\* not v is stored, with found = false exactly when there is none; Higher(k)
\* and Lower(k) of a TreeMap return the same for its key set.
C13_SuccessorPredecessor ==
    /\ bstCall.op = "Successor" =>
          IsSuccessor(bstCall.ret[1], bstCall.ret[2], Elems(InOrder(bstRoot)),
                      bstCall.arg)
    /\ bstCall.op = "Predecessor" =>
          IsPredecessor(bstCall.ret[1], bstCall.ret[2], Elems(InOrder(bstRoot)),
                        bstCall.arg)
    /\ tmCall.op = "Higher" =>
          IsSuccessor(tmCall.ret[1], tmCall.ret[3], Elems(Keys(tmRoot)), tmCall.key)
    /\ tmCall.op = "Lower" =>
          IsPredecessor(tmCall.ret[1], tmCall.ret[3], Elems(Keys(tmRoot)), tmCall.key)

\* C13's case: Successor(v) has returned for a v that is not stored, and
\* the successor is an inner node the search turned left at: neither the
\* root nor a leaf.
C13_Witness ==
    /\ bstCall.op = "Successor"
    /\ bstCall.arg \notin Elems(InOrder(bstRoot))
    /\ bstCall.ret[2] = TRUE
    /\ bstCall.ret[1] # bstRoot.Value
    /\ LET node == floorRecursive(bstRoot, bstCall.ret[1])
       IN  node.Left # Nil

RangeNext ==
    \/ \E value \in Elements : BSTAlone /\ BSTInsert(value)
    \/ \E value \in Elements : BSTAlone /\ BSTDelete(value)
    \/ \E min \in Elements, max \in Elements : BSTAlone /\ BSTRange(min, max)
    \/ \E key \in KeyDomain, value \in TMValues : TreeMapAlone /\ TMPut(key, value)
    \/ \E key \in KeyDomain : TreeMapAlone /\ TMRemove(key)
    \/ \E min \in KeyDomain, max \in KeyDomain : TreeMapAlone /\ TMRangeCall(min, max)

\* The subsequence of seq of the elements x with neither x < min nor
\* max < x.
RECURSIVE Between(_, _, _)
Between(seq, min, max) ==
    IF seq = <<>> THEN <<>>
    ELSE LET rest == Between(Tail(seq), min, max)
         IN  IF ~(Head(seq) < min) /\ ~(max < Head(seq))
             THEN <<Head(seq)>> \o rest
             ELSE rest

\* C14: Range(min, max) returns exactly the stored elements x with neither
\* x < min nor max < x, each once and ascending: the in-range part of
\* InOrder(), which is empty when max < min.  For a TreeMap the same holds
\* of the keys, each with the value stored under it.
C14_RangeExact ==
    /\ bstCall.op = "Range" =>
          /\ bstCall.ret = Between(InOrder(bstRoot), bstCall.arg[1], bstCall.arg[2])
          /\ StrictlyAscending(bstCall.ret)
          /\ bstCall.arg[2] < bstCall.arg[1] => bstCall.ret = <<>>
    /\ tmCall.op = "Range" =>
          LET result == tmCall.ret
              keys == [i \in 1..Len(result) |-> result[i].Key]
          IN  /\ keys = Between(Keys(tmRoot), tmCall.key[1], tmCall.key[2])
              /\ StrictlyAscending(keys)
              /\ \A i \in 1..Len(result) :
                     result[i].Value = Get(tmRoot, result[i].Key)[1]
              /\ tmCall.key[2] < tmCall.key[1] => result = <<>>

\* C14's case: Range has returned two or more elements of a BST, the root
\* is greater than max, so the right subtree was pruned, and some stored
\* element is less than min.
C14_Witness ==
    /\ bstCall.op = "Range"
    /\ Len(bstCall.ret) >= 2
    /\ bstRoot.Value > bstCall.arg[2]
    /\ bstRoot.Right # Nil
    /\ \E x \in Elems(InOrder(bstRoot)) : x < bstCall.arg[1]

(***************************************************************************)
(* Properties of the Graph's algorithms.  An edge (u, v) is an entry v in  *)
(* u's adjacency list, as HasEdge has it.                                  *)
(***************************************************************************)
\* The nodes one edge away from some node of set.
Targets(adj, set) == UNION {Elems(GetNeighbors(adj, u)) : u \in set}

\* The nodes a path of one or more edges leads to from the nodes of set.
RECURSIVE ReachableFrom(_, _, _)
ReachableFrom(adj, set, seen) ==
    LET next == Targets(adj, set) \ seen
    IN  IF next = {} THEN seen ELSE ReachableFrom(adj, next, seen \cup next)

\* Some path of one or more edges leads from a node back to it.
HasDirectedCycle(adj) == \E u \in DOMAIN adj : u \in ReachableFrom(adj, {u}, {})

\* Where x is in seq, x occurring in it once.
Position(seq, x) == CHOOSE i \in 1..Len(seq) : seq[i] = x

NoDuplicates(seq) == \A i, j \in 1..Len(seq) : seq[i] = seq[j] => i = j

\* The graphs AddEdge and RemoveNode calls build: nodes with and without
\* edges, parallel edges, self-loops, and the entries RemoveNode leaves
\* behind (C7).
CycleNext ==
    \/ \E from, to \in Nodes : GraphAddEdge(from, to)
    \/ \E node \in Nodes : GraphRemoveNode(node)
    \/ GraphHasCycle
    \/ GraphTopologicalSort

\* C15: TopologicalSort() returns ok = false when the graph is undirected
\* or has a directed cycle; otherwise ok = true and a sequence that holds
\* every node of the graph exactly once, no element twice, and u before v
\* for every edge (u, v).
C15_TopologicalSort ==
    graphCall.op = "TopologicalSort" =>
        LET result == graphCall.ret[1]
            ok == graphCall.ret[2]
        IN  IF ~directed \/ HasDirectedCycle(adjacency)
            THEN ok = FALSE
            ELSE /\ ok = TRUE
                 /\ DOMAIN adjacency \subseteq Elems(result)
                 /\ NoDuplicates(result)
                 /\ \A u \in DOMAIN adjacency :
                        \A v \in Elems(adjacency[u]) :
                            Position(result, u) < Position(result, v)

\* C15's case: TopologicalSort() has returned ok = true on a graph of three
\* nodes in which two edges end in one node, and the order is not the
\* ascending one.
C15_Witness ==
    /\ graphCall.op = "TopologicalSort"
    /\ graphCall.ret[2] = TRUE
    /\ DOMAIN adjacency = Nodes
    /\ \E u, v, w \in Nodes : /\ u # v
                              /\ HasEdge(adjacency, u, w)
                              /\ HasEdge(adjacency, v, w)
    /\ graphCall.ret[1] # <<1, 2, 3>>

\* C19: on a directed graph HasCycle() returns true iff some path of one or
\* more edges leads from a node back to it (a self-loop is such a path),
\* in whatever order the loop gets the nodes from the map.
C19_HasCycleDirected ==
    (graphCall.op = "HasCycle" /\ directed) =>
        graphCall.ret = HasDirectedCycle(adjacency)

\* C19's case: HasCycle() has returned false on a directed graph of three
\* nodes in which two different paths lead from one node to another, so
\* the search met a node it had visited and left before.
C19_Witness ==
    /\ graphCall.op = "HasCycle"
    /\ directed
    /\ graphCall.ret = FALSE
    /\ \E u, v, w \in Nodes :
           /\ Cardinality({u, v, w}) = 3
           /\ HasEdge(adjacency, u, v)
           /\ HasEdge(adjacency, v, w)
           /\ HasEdge(adjacency, u, w)

ShortestPathNext ==
    \/ \E node \in Nodes : GraphAddNode(node)
    \/ \E from, to \in Nodes : GraphAddEdge(from, to)
    \/ \E start, end \in Nodes : GraphShortestPath(start, end)

\* The number of edges of a shortest path to target from the nodes of
\* frontier, which are d edges from the start and with seen all the nodes
\* at most that far; -1 when no path leads to target.
RECURSIVE DistanceFrom(_, _, _, _, _)
DistanceFrom(adj, frontier, seen, target, d) ==
    IF target \in frontier THEN d
    ELSE LET next == Targets(adj, frontier) \ seen
         IN  IF next = {} THEN -1
             ELSE DistanceFrom(adj, next, seen \cup next, target, d + 1)

Distance(adj, start, end) == DistanceFrom(adj, {start}, {start}, end, 0)

\* C16: ShortestPath(start, end) returns found = false iff start or end is
\* not a node or no path leads from start to end; otherwise the path begins
\* with start, ends with end, every two consecutive elements are an edge,
\* and it has as few edges as any path from start to end.
C16_ShortestPath ==
    graphCall.op = "ShortestPath" =>
        LET start == graphCall.args[1]
            end == graphCall.args[2]
            path == graphCall.ret[1]
            found == graphCall.ret[2]
        IN  /\ found = FALSE <=> \/ ~HasNode(adjacency, start)
                                 \/ ~HasNode(adjacency, end)
                                 \/ Distance(adjacency, start, end) = -1
            /\ found = TRUE =>
                  /\ Len(path) >= 1
                  /\ path[1] = start
                  /\ path[Len(path)] = end
                  /\ \A i \in 1..(Len(path) - 1) :
                         HasEdge(adjacency, path[i], path[i + 1])
                  /\ Len(path) - 1 = Distance(adjacency, start, end)
                  /\ start = end => path = <<start>>

\* C16's case: ShortestPath has returned a path of one edge in a directed
\* graph that also has a path of two edges between the two nodes, the node
\* in between being the first neighbor of start.
C16_Witness ==
    /\ graphCall.op = "ShortestPath"
    /\ directed
    /\ graphCall.ret[2] = TRUE
    /\ Len(graphCall.ret[1]) = 2
    /\ LET start == graphCall.args[1]
           end == graphCall.args[2]
       IN  \E mid \in Nodes \ {start, end} :
               /\ adjacency[start][1] = mid
               /\ HasEdge(adjacency, mid, end)

\* The searches are checked on four nodes: on three, every order that
\* starts with start and a neighbor of it is both a breadth-first and a
\* depth-first order.
SearchNodes == Nodes \cup {4}

BFSNext ==
    \/ \E from, to \in SearchNodes : GraphAddEdge(from, to)
    \/ \E start \in SearchNodes : GraphBFS(start)

\* start and the nodes a path leads to from start.
Reachable(adj, start) == ReachableFrom(adj, {start}, {start})

\* C17: BFS(start) returns every node reachable from start exactly once and
\* no other, start first and the nodes in non-decreasing order of their
\* distance in edges from start.
C17_BFS ==
    graphCall.op = "BFS" =>
        LET start == graphCall.args[1]
            result == graphCall.ret
        IN  /\ Elems(result) = Reachable(adjacency, start)
            /\ NoDuplicates(result)
            /\ result[1] = start
            /\ \A i, j \in 1..Len(result) :
                   i < j => Distance(adjacency, start, result[i])
                                <= Distance(adjacency, start, result[j])

\* C17's case: BFS has returned four nodes of a directed graph, the third
\* a neighbor of start and the fourth two edges from start, behind the
\* second.
C17_Witness ==
    /\ graphCall.op = "BFS"
    /\ directed
    /\ Len(graphCall.ret) = 4
    /\ HasEdge(adjacency, graphCall.ret[1], graphCall.ret[3])
    /\ HasEdge(adjacency, graphCall.ret[2], graphCall.ret[4])
    /\ Distance(adjacency, graphCall.ret[1], graphCall.ret[4]) = 2

DFSNext ==
    \/ \E from, to \in SearchNodes : GraphAddEdge(from, to)
    \/ \E start \in SearchNodes : GraphDFS(start)
    \/ \E start \in SearchNodes : GraphDFSIterative(start)

\* seq is the preorder of a depth-first traversal: every element after the
\* first is a neighbor of the latest element before it that still has a
\* neighbor not yet in the sequence (the traversal backs up no further
\* than it must).
IsDFSPreorder(adj, seq) ==
    \A i \in 2..Len(seq) :
        LET before == {seq[k] : k \in 1..(i - 1)}
            open == {j \in 1..(i - 1) :
                        Elems(GetNeighbors(adj, seq[j])) \ before # {}}
        IN  /\ open # {}
            /\ LET j == CHOOSE j \in open : \A k \in open : k <= j
               IN  seq[i] \in Elems(GetNeighbors(adj, seq[j]))

\* C18: DFS(start) and DFSIterative(start) each return exactly the nodes
\* reachable from start, each once, start first, in the preorder of a
\* depth-first traversal from start.
C18_DFS ==
    graphCall.op \in {"DFS", "DFSIterative"} =>
        LET start == graphCall.args[1]
            result == graphCall.ret
        IN  /\ Elems(result) = Reachable(adjacency, start)
            /\ NoDuplicates(result)
            /\ result[1] = start
            /\ IsDFSPreorder(adjacency, result)

\* C18's case: DFSIterative has returned four nodes of a directed graph,
\* and the third is not a neighbor of start but the second is: the order
\* went deep before it went wide.
C18_Witness ==
    /\ graphCall.op = "DFSIterative"
    /\ directed
    /\ Len(graphCall.ret) = 4
    /\ HasEdge(adjacency, graphCall.ret[1], graphCall.ret[2])
    /\ HasEdge(adjacency, graphCall.ret[1], graphCall.ret[4])
    /\ ~HasEdge(adjacency, graphCall.ret[1], graphCall.ret[3])

BipartiteNext ==
    \/ \E node \in Nodes : GraphAddNode(node)
    \/ \E from, to \in Nodes : GraphAddEdge(from, to)
    \/ GraphIsBipartite

\* Some assignment of two colours to the nodes leaves no edge between two
\* nodes of one colour.
TwoColourable(adj) ==
    LET ends == DOMAIN adj \cup Targets(adj, DOMAIN adj)
    IN  \E colouring \in [ends -> {1, -1}] :
            \A u \in DOMAIN adj :
                \A v \in Elems(adj[u]) : colouring[u] # colouring[v]

\* C20: IsBipartite() returns true iff the graph is two-colourable, on
\* directed and on undirected graphs, in whatever order the loop gets the
\* uncoloured nodes from the map.
C20_IsBipartite ==
    graphCall.op = "IsBipartite" => graphCall.ret = TwoColourable(adjacency)

AllPathsNext ==
    \/ \E from, to \in SearchNodes : GraphAddEdge(from, to)
    \/ \E start, end \in SearchNodes : GraphAllPaths(start, end)

\* path leads from start to end along edges and repeats no node.
IsSimplePath(adj, path, start, end) ==
    /\ Len(path) >= 1
    /\ path[1] = start
    /\ path[Len(path)] = end
    /\ \A i \in 1..(Len(path) - 1) : HasEdge(adj, path[i], path[i + 1])
    /\ NoDuplicates(path)

\* The sequences without repetition over the node names.
SimpleSequences ==
    UNION {{seq \in [1..n -> SearchNodes] : NoDuplicates(seq)} :
              n \in 1..Cardinality(SearchNodes)}

\* C21: every sequence AllPaths(start, end) returns begins with start, ends
\* with end, follows edges and repeats no node, and every such simple path
\* is among the sequences returned.
C21_AllPaths ==
    graphCall.op = "AllPaths" =>
        LET start == graphCall.args[1]
            end == graphCall.args[2]
            paths == graphCall.ret
        IN  /\ \A i \in 1..Len(paths) :
                   IsSimplePath(adjacency, paths[i], start, end)
            /\ \A seq \in SimpleSequences :
                   IsSimplePath(adjacency, seq, start, end) => seq \in Elems(paths)

\* C21's case: AllPaths has returned two or more different paths of a
\* directed graph, one of them of two edges.
C21_Witness ==
    /\ graphCall.op = "AllPaths"
    /\ directed
    /\ Cardinality(Elems(graphCall.ret)) >= 2
    /\ \E i \in 1..Len(graphCall.ret) : Len(graphCall.ret[i]) = 3

ComponentsNext ==
    \/ \E from, to \in Nodes : GraphAddEdge(from, to)
    \/ \E node \in Nodes : GraphRemoveNode(node)
    \/ GraphConnectedComponents

\* The sum of the lengths of the lists of components.
RECURSIVE TotalLength(_)
TotalLength(components) ==
    IF components = <<>> THEN 0
    ELSE Len(Head(components)) + TotalLength(Tail(components))

\* C22: the lists ConnectedComponents() returns hold every node of the
\* graph, their lengths sum to NodeCount(), and in an undirected graph two
\* nodes are in one list exactly when a path joins them.
C22_ConnectedComponents ==
    graphCall.op = "ConnectedComponents" =>
        LET components == graphCall.ret
        IN  /\ TotalLength(components) = NodeCount(adjacency)
            /\ \A node \in DOMAIN adjacency :
                   \E i \in 1..Len(components) : node \in Elems(components[i])
            /\ ~directed =>
                   \A u, v \in DOMAIN adjacency :
                       (\E i \in 1..Len(components) :
                            {u, v} \subseteq Elems(components[i]))
                           <=> v \in Reachable(adjacency, u)

\* The nodes of the graphs Equals is called on.
EqualsNodes == {1, 2}

\* The graph that the AddEdge calls of the sequence edges make of adj.
RECURSIVE AddEdges(_, _, _)
AddEdges(adj, dir, edges) ==
    IF edges = <<>> THEN adj
    ELSE AddEdges(AddEdge(adj, dir, Head(edges)[1], Head(edges)[2]), dir, Tail(edges))

\* The graphs to compare with: NewGraph(dir) after up to MaxEdges AddEdge
\* calls, as <<adjacency, directed>>.
OtherGraphs ==
    {<<AddEdges(NewGraph, dir, edges), dir>> :
        dir \in BOOLEAN,
        edges \in UNION {[1..n -> EqualsNodes \X EqualsNodes] : n \in 0..MaxEdges}}

EqualsNext ==
    \/ \E from, to \in EqualsNodes : GraphAddEdge(from, to)
    \/ \E other \in OtherGraphs : GraphEquals(other)

\* The two graphs have the same nodes and every node the same set of
\* neighbors in both.
SameNeighborSets(adj, otherAdj) ==
    /\ DOMAIN adj = DOMAIN otherAdj
    /\ \A node \in DOMAIN adj : Elems(adj[node]) = Elems(otherAdj[node])

\* C23 as stated: Equals(other) is true exactly when the graphs have the
\* same directedness, the same nodes and per node the same set of
\* neighbors, the number of parallel edges not being compared.
C23_EqualsIgnoresMultiplicity ==
    graphCall.op = "Equals" =>
        graphCall.ret = (/\ directed = graphCall.args[2]
                         /\ SameNeighborSets(adjacency, graphCall.args[1]))

\* C23 amended: Equals(other) is true exactly when the graphs have the same
\* directedness, the same nodes and per node the same set of neighbors and
\* the same number of entries in the neighbor list.
C23_EqualsComparesLengths ==
    graphCall.op = "Equals" =>
        graphCall.ret = (/\ directed = graphCall.args[2]
                         /\ SameNeighborSets(adjacency, graphCall.args[1])
                         /\ \A node \in DOMAIN adjacency :
                                Len(adjacency[node]) = Len(graphCall.args[1][node]))

\* C23's case: Equals has returned false for two graphs of the same
\* directedness, nodes and neighbor sets, one with a parallel edge more.
C23_Witness ==
    /\ graphCall.op = "Equals"
    /\ ~graphCall.ret
    /\ directed = graphCall.args[2]
    /\ SameNeighborSets(adjacency, graphCall.args[1])
    /\ \E node \in DOMAIN adjacency :
           Len(adjacency[node]) = Len(graphCall.args[1][node]) + 1

\* The number of entries v in u's adjacency list, 0 when u is no node.
Multiplicity(adj, u, v) == Count(GetNeighbors(adj, u), v)

\* C24: edges are kept with multiplicity.  For u # v, AddEdge(u, v) adds one
\* entry v to u's list (Degree(u) grows by 1, Degree(v) too when
\* undirected) and RemoveEdge(u, v) removes exactly one such entry, or
\* changes nothing when there is none, so HasEdge(u, v) is true exactly
\* while fewer were removed than added; every AddEdge raises EdgeCount() by
\* 1 and every RemoveEdge that finds an edge lowers it by 1.
C24_EdgeMultiplicity ==
    LET u == graphCall.from
        v == graphCall.to
        pre == graphCall.pre
    IN  /\ graphCall.op = "AddEdge" =>
              /\ EdgeCount(adjacency, directed) = EdgeCount(pre, directed) + 1
              /\ u # v =>
                     /\ Multiplicity(adjacency, u, v) = Multiplicity(pre, u, v) + 1
                     /\ Degree(adjacency, u) = Degree(pre, u) + 1
                     /\ Degree(adjacency, v) =
                            Degree(pre, v) + (IF directed THEN 0 ELSE 1)
                     /\ HasEdge(adjacency, u, v)
        /\ graphCall.op = "RemoveEdge" =>
              IF HasEdge(pre, u, v)
              THEN /\ EdgeCount(adjacency, directed) = EdgeCount(pre, directed) - 1
                   /\ u # v =>
                          /\ Multiplicity(adjacency, u, v) = Multiplicity(pre, u, v) - 1
                          /\ Degree(adjacency, u) = Degree(pre, u) - 1
                          /\ HasEdge(adjacency, u, v) = (Multiplicity(pre, u, v) > 1)
              ELSE adjacency = pre
        /\ graphCall.op \in {"AddEdge", "RemoveEdge"} =>
              \A x, y \in Nodes :
                  (<<x, y>> # <<u, v>> /\ (directed \/ <<x, y>> # <<v, u>>)) =>
                      Multiplicity(adjacency, x, y) = Multiplicity(pre, x, y)

\* C24's case: in a directed graph RemoveEdge(u, v), u # v, has removed one
\* of three parallel edges while the opposite edge v -> u exists.
C24_Witness ==
    /\ directed
    /\ graphCall.op = "RemoveEdge"
    /\ graphCall.from # graphCall.to
    /\ Multiplicity(graphCall.pre, graphCall.from, graphCall.to) = 3
    /\ Multiplicity(adjacency, graphCall.from, graphCall.to) = 2

(***************************************************************************)
(* Properties of the Trie's queries.                                       *)
(***************************************************************************)
\* The patterns asked for: "", "?", "*", "a*", "*b", "?b", "**", "*?*" and
\* U+00E9.
Patterns ==
    {<<>>, <<Question>>, <<Star>>, <<97, Star>>, <<Star, 98>>, <<Question, 98>>,
     <<Star, Star>>, <<Star, Question, Star>>, <<233>>}

PatternNext ==
    \/ \E word \in Words : TrieInsert(word)
    \/ \E word \in Words : TrieDelete(word)
    \/ \E pattern \in Patterns : TrieGetWordsWithPattern(pattern)

\* The words Search finds in the trie.
StoredWords(nodes) == {p \in DOMAIN nodes : nodes[p].isEnd}

\* word matches pattern: '?' stands for one character, '*' for any number
\* of characters, any other character for itself.
RECURSIVE Matches(_, _)
Matches(word, pattern) ==
    IF pattern = <<>> THEN word = <<>>
    ELSE IF Head(pattern) = Star
    THEN Matches(word, Tail(pattern)) \/ (word # <<>> /\ Matches(Tail(word), pattern))
    ELSE /\ word # <<>>
         /\ Head(pattern) = Question \/ Head(pattern) = Head(word)
         /\ Matches(Tail(word), Tail(pattern))

\* C25: GetWordsWithPattern(pattern) returns the stored words that match
\* pattern, each once, and no other word.
C25_GetWordsWithPattern ==
    trieCall.op = "GetWordsWithPattern" =>
        trieCall.ret =
            SetToBag({w \in StoredWords(trieNodes) : Matches(w, trieCall.pattern)})

\* C26: InsertWithValue(w, v) leaves Size() unchanged when w was stored and
\* raises it by 1 when w is new, and SearchWithValue(w) then returns
\* (v, true); SearchWithValue of a word that is not stored, a prefix of a
\* stored word included, returns found = false.
C26_InsertWithValue ==
    /\ trieCall.op = "InsertWithValue" =>
           /\ trieSize = trieCall.pre.size
                  + (IF trieCall.word \in trieCall.pre.words THEN 0 ELSE 1)
           /\ SearchWithValue(trieNodes, trieCall.word) = <<trieCall.value, TRUE>>
    /\ \A w \in Words :
           w \notin trieWords => ~SearchWithValue(trieNodes, w)[2]

\* C26's case: InsertWithValue has given a value to the word "ab", stored
\* before without one, while its prefix "a" is not stored.
C26_Witness ==
    /\ trieCall.op = "InsertWithValue"
    /\ trieCall.word = <<97, 98>>
    /\ trieCall.word \in trieCall.pre.words
    /\ SearchWithValue(trieCall.pre.nodes, trieCall.word) = <<NilValue, TRUE>>
    /\ trieSize = trieCall.pre.size
    /\ <<97>> \notin trieWords

\* The strings EditDistance is asked about: up to MaxWordLen characters of
\* 'a', 'b' and U+00E9.
Strings == UNION {[1..n -> {97, 98, 233}] : n \in 0..MaxWordLen}

EditDistanceNext ==
    \E word1, word2 \in Strings : TrieEditDistance(word1, word2)

\* The least number of insertions, deletions and substitutions of one
\* character that turn a into b.
RECURSIVE Levenshtein(_, _)
Levenshtein(a, b) ==
    IF a = <<>> THEN Len(b)
    ELSE IF b = <<>> THEN Len(a)
    ELSE LET delete == 1 + Levenshtein(Tail(a), b)
             insert == 1 + Levenshtein(a, Tail(b))
             substitute == (IF Head(a) = Head(b) THEN 0 ELSE 1)
                               + Levenshtein(Tail(a), Tail(b))
         IN  IF delete <= insert /\ delete <= substitute THEN delete
             ELSE IF insert <= substitute THEN insert
             ELSE substitute

\* C27: EditDistance(a, b) is the Levenshtein distance of a and b, so it is
\* 0 for equal strings, and it equals EditDistance(b, a).
C27_EditDistance ==
    trieCall.op = "EditDistance" =>
        /\ trieCall.ret = Levenshtein(trieCall.word1, trieCall.word2)
        /\ trieCall.word1 = trieCall.word2 => trieCall.ret = 0
        /\ trieCall.ret = EditDistance(trieCall.word2, trieCall.word1)

PrefixNext ==
    \/ \E word \in Words : TrieInsert(word)
    \/ \E word \in Words : TrieDelete(word)
    \/ TrieClear
    \/ TrieLongestCommonPrefix

\* The strings that are a prefix of every word of the set.
CommonPrefixes(words) ==
    {p \in UNION {Prefixes(w) : w \in words} : \A w \in words : p \in Prefixes(w)}

\* C28: LongestCommonPrefix() returns the longest string that is a prefix
\* of every stored word: the word itself when one word is stored, the empty
\* string when none is or when the stored words share no prefix.
C28_LongestCommonPrefix ==
    trieCall.op = "LongestCommonPrefix" =>
        LET words == StoredWords(trieNodes)
        IN  IF words = {} THEN trieCall.ret = <<>>
            ELSE /\ trieCall.ret \in CommonPrefixes(words)
                 /\ \A p \in CommonPrefixes(words) : Len(p) <= Len(trieCall.ret)

\* C28's case: with "a" and "ab" the only stored words,
\* LongestCommonPrefix has returned "a".
C28_Witness ==
    /\ trieCall.op = "LongestCommonPrefix"
    /\ StoredWords(trieNodes) = {<<97>>, <<97, 98>>}
    /\ trieWords = {<<97>>, <<97, 98>>}
    /\ trieCall.ret = <<97>>

BalanceNext ==
    \/ \E value \in Elements : BSTAlone /\ BSTInsert(value)
    \/ \E value \in Elements : BSTAlone /\ BSTDelete(value)
    \/ BSTAlone /\ BSTHeight
    \/ BSTAlone /\ BSTIsBalanced
    \/ \E key \in KeyDomain, value \in TMValues : TreeMapAlone /\ TMPut(key, value)
    \/ \E key \in KeyDomain : TreeMapAlone /\ TMRemove(key)
    \/ TreeMapAlone /\ TMHeightCall
    \/ TreeMapAlone /\ TMIsBalancedCall

\* The depths, in edges below a root at the given depth, of the nodes of a
\* tree.
RECURSIVE NodeDepths(_, _)
NodeDepths(node, depth) ==
    IF node = Nil THEN {}
    ELSE {depth} \cup NodeDepths(node.Left, depth + 1)
                 \cup NodeDepths(node.Right, depth + 1)

\* The number of edges on the longest way down from the root; -1 for the
\* empty tree.
TreeHeight(node) ==
    IF node = Nil THEN -1
    ELSE CHOOSE d \in NodeDepths(node, 0) : \A e \in NodeDepths(node, 0) : e <= d

\* The nodes of a tree, each with its subtree.
RECURSIVE Subtrees(_)
Subtrees(node) ==
    IF node = Nil THEN {}
    ELSE {node} \cup Subtrees(node.Left) \cup Subtrees(node.Right)

\* The heights of the two subtrees differ by at most 1 at every node.
HeightBalanced(root) ==
    \A n \in Subtrees(root) :
        /\ TreeHeight(n.Left) - TreeHeight(n.Right) <= 1
        /\ TreeHeight(n.Right) - TreeHeight(n.Left) <= 1

\* C29: Height() is -1 for the empty tree, 0 for a single node and 1 more
\* than the larger height of the two subtrees otherwise, and IsBalanced()
\* is true exactly when at every node the heights of the left and the right
\* subtree differ by at most 1; BST and TreeMap alike.
C29_HeightAndBalance ==
    /\ bstCall.op = "Height" =>
           /\ bstCall.ret = TreeHeight(bstRoot)
           /\ bstRoot # Nil =>
                  bstCall.ret = 1 + (IF TreeHeight(bstRoot.Left) > TreeHeight(bstRoot.Right)
                                     THEN TreeHeight(bstRoot.Left)
                                     ELSE TreeHeight(bstRoot.Right))
    /\ bstCall.op = "IsBalanced" => bstCall.ret = HeightBalanced(bstRoot)
    /\ tmCall.op = "Height" => tmCall.ret = TreeHeight(tmRoot)
    /\ tmCall.op = "IsBalanced" => tmCall.ret = HeightBalanced(tmRoot)

\* C29's case: IsBalanced has returned false for a BST of five nodes whose
\* root has two children, the right subtree being the higher one.
C29_Witness ==
    /\ bstCall.op = "IsBalanced"
    /\ ~bstCall.ret
    /\ bstSize = 5
    /\ bstRoot.Left # Nil
    /\ TreeHeight(bstRoot.Right) = 2

(***************************************************************************)
(* Properties of the Deque and of the PriorityQueue.                       *)
(***************************************************************************)
\* The last element of a list that is not empty.
Last(list) == list[Len(list)]

\* What a call that returns an element of the list returns for an empty
\* list, and for the element e otherwise.
NoElement == <<ZeroT, FALSE>>

\* C31: the Deque agrees with the abstract list run beside it: ToSlice()
\* is the list and Size() its length; PopFront and Front return the list's
\* first element, PopBack and Back its last, Remove(index) the element at
\* index, each with ok = true; on an empty Deque PopFront, PopBack, Front
\* and Back return ok = false and leave the Deque as it was; Insert
\* returns true exactly for an index from 0 to Size().
C31_DequeRefinesList ==
    /\ ToSlice(deque) = dequeList
    /\ deque.size = Len(dequeList)
    /\ dequeCall.op # "none" =>
           LET list == dequeCall.preList
               ret == dequeCall.ret
           IN  /\ ~dequeCall.panic
               /\ dequeCall.op \in {"PopFront", "Front"} =>
                      ret = IF list = <<>> THEN NoElement ELSE <<Head(list), TRUE>>
               /\ dequeCall.op \in {"PopBack", "Back"} =>
                      ret = IF list = <<>> THEN NoElement ELSE <<Last(list), TRUE>>
               /\ (dequeCall.op \in {"PopFront", "PopBack", "Front", "Back"}
                       /\ list = <<>>) => deque = dequeCall.pre
               /\ dequeCall.op = "Remove" =>
                      ret = IF dequeCall.args[1] \in 0..(Len(list) - 1)
                            THEN <<list[dequeCall.args[1] + 1], TRUE>>
                            ELSE NoElement
               /\ dequeCall.op = "Insert" =>
                      ret = (dequeCall.args[1] \in 0..Len(list))

\* C31's case: Insert has put an element between others while the array
\* was full and its elements ran from the end of the array on to its
\* start, so that the array grew in the call.
C31_Witness ==
    /\ dequeCall.op = "Insert"
    /\ dequeCall.args[1] > 0
    /\ dequeCall.args[1] < dequeCall.pre.size
    /\ dequeCall.pre.front > 0
    /\ dequeCall.pre.size = Len(dequeCall.pre.data)
    /\ Len(deque.data) = 2 * Len(dequeCall.pre.data)
    /\ ToSlice(deque) = dequeList

\* C40: every call leaves the circular buffer usable: the capacity is at
\* least 1, front and back are indices of the array, back is
\* (front + size) mod capacity, and a PushBack or PushFront does not panic,
\* stores its element at its end and makes Size() one more.
C40_BufferUsable ==
    /\ Len(deque.data) >= 1
    /\ deque.front \in 0..(Len(deque.data) - 1)
    /\ deque.back \in 0..(Len(deque.data) - 1)
    /\ deque.back = (deque.front + deque.size) % Len(deque.data)
    /\ dequeCall.op \in {"PushBack", "PushFront"} =>
           /\ ~dequeCall.panic
           /\ deque.size = dequeCall.pre.size + 1
           /\ dequeCall.op = "PushBack" =>
                  Last(ToSlice(deque)) = dequeCall.args[1]
           /\ dequeCall.op = "PushFront" =>
                  Head(ToSlice(deque)) = dequeCall.args[1]

\* The elements of a sequence with their numbers of occurrences.
BagOfSeq(seq) == [x \in Elems(seq) |-> Count(seq, x)]

\* e is held in data and no held element is less than e.
IsLeast(e, data) ==
    /\ e \in Elems(data)
    /\ \A x \in Elems(data) : ~pqLess(x, e)

\* C32: in the PriorityQueue no element is less than its parent in the
\* heap; Peek and Dequeue return a held element that no held element is
\* less than, Dequeue takes exactly that one occurrence away and Peek and
\* Enqueue take none (Enqueue adds its item); on an empty queue Dequeue and
\* Peek return ok = false.
C32_HeapOrder ==
    /\ \A i \in 1..(Len(pqData) - 1) :
           ~pqLess(pqData[i + 1], pqData[((i - 1) \div 2) + 1])
    /\ pqCall.op \in {"Dequeue", "Peek"} =>
           IF pqCall.pre = <<>>
           THEN pqCall.ret = NoElement /\ pqData = <<>>
           ELSE /\ pqCall.ret[2]
                /\ IsLeast(pqCall.ret[1], pqCall.pre)
    /\ (pqCall.op = "Dequeue" /\ pqCall.pre # <<>>) =>
           BagOfSeq(pqData) (+) SetToBag({pqCall.ret[1]}) = BagOfSeq(pqCall.pre)
    /\ pqCall.op = "Peek" => pqData = pqCall.pre
    /\ pqCall.op = "Enqueue" =>
           BagOfSeq(pqData) = BagOfSeq(pqCall.pre) (+) SetToBag({pqCall.item})

\* C32's case: Dequeue has taken the least of five elements, of which the
\* last one, moved to the root, had to go down two levels.
C32_Witness ==
    /\ pqCall.op = "Dequeue"
    /\ Len(pqCall.pre) = 5
    /\ pqCall.ret = <<1, TRUE>>
    /\ pqData[4] = pqCall.pre[5]
    /\ pqData[4] = 3
    /\ pqData[1] = 2

(***************************************************************************)
(* Further properties of the Trie.                                         *)
(***************************************************************************)
\* The prefixes StartsWith is asked for: those of Words that are not empty.
NonEmptyPrefixes == UNION {Prefixes(w) : w \in Words} \ {<<>>}

\* C33: every node of the trie other than the root is the end of a word or
\* has a child, so that StartsWith(p), for p not empty, is true exactly
\* when a stored word starts with p.
C33_NoDeadBranch ==
    /\ \A path \in DOMAIN trieNodes \ {<<>>} :
           trieNodes[path].isEnd \/ Children(trieNodes, path) # {}
    /\ \A p \in NonEmptyPrefixes :
           StartsWith(trieNodes, p)
               <=> \E w \in StoredWords(trieNodes) : p \in Prefixes(w)

\* C33's case: Delete has taken away the word ab and its node while the
\* word a stays, so that StartsWith finds a and no longer ab.
C33_Witness ==
    /\ trieCall.op = "Delete"
    /\ trieCall.word = <<97, 98>>
    /\ <<97, 98>> \in StoredWords(trieCall.pre.nodes)
    /\ StartsWith(trieNodes, <<97>>)
    /\ ~StartsWith(trieNodes, <<97, 98>>)

(***************************************************************************)
(* Further properties of the Graph.                                        *)
(***************************************************************************)
\* Some node has another node, or itself, in its list of neighbors.
HasSomeEdge(adj) == \E u \in DOMAIN adj : \E v \in Nodes : HasEdge(adj, u, v)

\* C34: on an undirected graph HasCycle() returns true exactly when the
\* graph has at least one edge.
C34_UndirectedHasCycle ==
    (graphCall.op = "HasCycle" /\ ~directed) =>
        graphCall.ret = HasSomeEdge(adjacency)

\* The slices Subgraph is called with.
NodeSlices == {<<>>, <<1>>, <<2, 1>>, <<3, 1, 3>>, <<1, 2, 3>>, <<4, 2>>}

FilterNext ==
    \/ \E node \in Nodes : GraphAddNode(node)
    \/ \E from, to \in Nodes : GraphAddEdge(from, to)
    \/ \E kept \in SUBSET Nodes : GraphFilterNodes(kept)
    \/ \E nodes \in NodeSlices : GraphSubgraph(nodes)

\* The graph induced on the nodes kept: every list without the entries
\* for nodes not kept.
Induced(adj, kept) ==
    [u \in DOMAIN adj \cap kept |-> SelectSeq(adj[u], LAMBDA v : v \in kept)]

\* C35: FilterNodes(p) and Subgraph(nodes) return the induced subgraph: its
\* nodes are the nodes of the graph that are kept; for kept u and v the
\* list of u has as many entries v as in the graph; its EdgeCount() is the
\* number of the graph's edges between kept nodes; and when every node is
\* kept it Equals the graph.
C35_InducedSubgraph ==
    graphCall.op \in {"FilterNodes", "Subgraph"} =>
        LET kept == graphCall.args
            result == graphCall.ret
        IN  /\ DOMAIN result = DOMAIN adjacency \cap kept
            /\ \A u, v \in DOMAIN result :
                   Count(result[u], v) = Count(adjacency[u], v)
            /\ EdgeCount(result, directed)
                   = EdgeCount(Induced(adjacency, kept), directed)
            /\ DOMAIN adjacency \subseteq kept =>
                   Equals(result, directed, adjacency, directed)

\* C36: DFS(start) and DFSIterative(start) return the same sequence.
C36_DFSSameSequence ==
    /\ graphCall.op = "DFS" =>
           graphCall.ret = DFSIterative(adjacency, graphCall.args[1])
    /\ graphCall.op = "DFSIterative" =>
           graphCall.ret = DFS(adjacency, graphCall.args[1])

\* C36's case: DFSIterative has returned three nodes of a directed graph;
\* the second neighbor of start, pushed when start was popped, is also a
\* neighbor of the first, from where it was pushed again and visited, and
\* its older entry on the stack was passed over.
C36_Witness ==
    /\ graphCall.op = "DFSIterative"
    /\ directed
    /\ Len(graphCall.ret) = 3
    /\ LET start == graphCall.args[1]
       IN  /\ Len(adjacency[start]) = 2
           /\ graphCall.ret[2] = adjacency[start][1]
           /\ graphCall.ret[3] = adjacency[start][2]
           /\ graphCall.ret[2] # graphCall.ret[3]
           /\ HasEdge(adjacency, graphCall.ret[2], graphCall.ret[3])

ConnectedNext ==
    \/ \E node \in Nodes : GraphAddNode(node)
    \/ \E from, to \in Nodes : GraphAddEdge(from, to)
    \/ GraphConnectedComponents
    \/ GraphIsConnected

\* C37: the number of lists ConnectedComponents() returns, and with it the
\* result of IsConnected(), is the same for every order in which the map
\* may yield the nodes.
C37_OrderIndependent ==
    /\ graphCall.op = "ConnectedComponents" =>
           \A order \in IterationOrders(adjacency) :
               Len(ConnectedComponents(adjacency, order)) = Len(graphCall.ret)
    /\ graphCall.op = "IsConnected" =>
           \A order \in IterationOrders(adjacency) :
               IsConnected(adjacency, order) = graphCall.ret

\* C38: Insert(w) of a word that is stored leaves the value stored with it
\* as it was: SearchWithValue(w) returns after the call what it returned
\* before.
C38_InsertKeepsValue ==
    (trieCall.op = "Insert" /\ TrieSearch(trieCall.pre.nodes, trieCall.word)) =>
        SearchWithValue(trieNodes, trieCall.word)
            = SearchWithValue(trieCall.pre.nodes, trieCall.word)

\* C39: Delete walks a word by the characters Insert and Search walk it
\* by: Delete(w) of a stored word, a word of multi-byte characters too,
\* leaves Search(w) false and Size() one less, which is Size() before the
\* Insert that stored w; Delete(w) of a word that is not stored removes no
\* stored word and leaves Size() as it was.
C39_DeleteSameUnits ==
    trieCall.op = "Delete" =>
        IF TrieSearch(trieCall.pre.nodes, trieCall.word)
        THEN /\ ~TrieSearch(trieNodes, trieCall.word)
             /\ trieSize = trieCall.pre.size - 1
        ELSE /\ StoredWords(trieNodes) = StoredWords(trieCall.pre.nodes)
             /\ trieSize = trieCall.pre.size

\* The containers a specification never calls stay as constructed: the
\* Deque by NewDeque(1), the PriorityQueue by NewPriorityQueue.
OthersInit == DequeInitOf(1) /\ PQInit

Init == BSTInit /\ TMInit /\ TrieInit /\ GraphInit /\ OthersInit

Next == BSTNext \/ TMNext \/ TrieNext \/ GraphNext \/ DequeNext \/ PQNext

Spec == Init /\ [][Next]_vars

\* The initial state with the graph beside the other containers an
\* undirected one, for the specifications that never call the graph.
InitNoGraph == BSTInit /\ TMInit /\ TrieInit /\ GraphInitOf(FALSE) /\ OthersInit

\* The BST alone: the other containers stay as constructed.
SpecBST == InitNoGraph /\ [][BSTNext]_vars

\* The TreeMap alone.
SpecTreeMap == InitNoGraph /\ [][TMNext]_vars

\* The Trie alone.
SpecTrie == InitNoGraph /\ [][TrieNext]_vars

\* The Trie under calls that only add words.
SpecTrieInsert == InitNoGraph /\ [][TrieInsertNext]_vars

\* The Graph alone, directed or undirected.
SpecGraph == Init /\ [][GraphNext]_vars

\* The Graph under AddNode, AddEdge and RemoveEdge calls only.
SpecGraphEdges == Init /\ [][GraphEdgeNext]_vars

\* The BST or the TreeMap under Insert, Delete, Rank and Select calls.
SpecRankSelect == InitNoGraph /\ [][RankSelectNext]_vars

\* The BST or the TreeMap under Insert, Delete, Floor and Ceiling calls.
SpecFloorCeiling == InitNoGraph /\ [][FloorCeilingNext]_vars

\* The BST under Insert, Delete, Successor and Predecessor calls, or the
\* TreeMap under Put, Remove, Higher and Lower calls.
SpecNeighbour == InitNoGraph /\ [][NeighbourNext]_vars

\* The BST or the TreeMap under Insert, Delete and Range calls.
SpecRange == InitNoGraph /\ [][RangeNext]_vars

\* The BST or the TreeMap under Insert, Delete (Put, Remove), Height and
\* IsBalanced calls.
SpecBalance == InitNoGraph /\ [][BalanceNext]_vars

\* The Graph, directed or undirected, under AddEdge, RemoveNode, HasCycle
\* and TopologicalSort calls.
SpecCycle == Init /\ [][CycleNext]_vars

\* The Graph, directed or undirected, under AddNode, AddEdge and
\* ShortestPath calls.
SpecShortestPath == Init /\ [][ShortestPathNext]_vars

\* The Graph, directed or undirected, on four nodes under AddEdge and BFS
\* calls.
SpecBFS == Init /\ [][BFSNext]_vars

\* The Graph, directed or undirected, on four nodes under AddEdge, DFS and
\* DFSIterative calls.
SpecDFS == Init /\ [][DFSNext]_vars

\* The Graph, directed or undirected, under AddNode, AddEdge and
\* IsBipartite calls.
SpecBipartite == Init /\ [][BipartiteNext]_vars

\* The Graph, directed or undirected, on four nodes under AddEdge and
\* AllPaths calls.
SpecAllPaths == Init /\ [][AllPathsNext]_vars

\* The Graph, directed or undirected, under AddEdge, RemoveNode and
\* ConnectedComponents calls.
SpecComponents == Init /\ [][ComponentsNext]_vars

\* The Graph, directed or undirected, on two nodes under AddEdge and Equals
\* calls.
SpecEquals == Init /\ [][EqualsNext]_vars

\* The Trie under Insert, Delete and GetWordsWithPattern calls.
SpecPattern == Init /\ [][PatternNext]_vars

\* The Trie under EditDistance calls.
SpecEditDistance == Init /\ [][EditDistanceNext]_vars

\* The Trie under Insert, Delete, Clear and LongestCommonPrefix calls.
SpecPrefix == Init /\ [][PrefixNext]_vars

\* The initial state for the Deque's specifications: NewDeque with each of
\* the capacities.
InitDeque ==
    BSTInit /\ TMInit /\ TrieInit /\ GraphInitOf(FALSE) /\ DequeInit /\ PQInit

\* The Deque under the calls that an abstract list has too.
SpecDequeList == InitDeque /\ [][DequeListNext]_vars

\* The Deque under all its calls.
SpecDeque == InitDeque /\ [][DequeNext]_vars

\* The PriorityQueue alone.
SpecPriorityQueue == InitNoGraph /\ [][PQNext]_vars

\* The Graph, directed or undirected, under AddNode, AddEdge, FilterNodes
\* and Subgraph calls.
SpecFilter == Init /\ [][FilterNext]_vars

\* The Graph, directed or undirected, under AddNode, AddEdge,
\* ConnectedComponents and IsConnected calls.
SpecConnected == Init /\ [][ConnectedNext]_vars

====
